---- MODULE Spec2Model ----
(***************************************************************************)
(* A state-machine model of the mining-site record keeper: the Dexie store *)
(* (sites and the site-owned tables), the attendance records kept in       *)
(* localStorage, the App shell that tracks the active site, and the page   *)
(* handlers that write to them.                                            *)
(*                                                                         *)
(* Every handler is an async function.  An action of the model is one      *)
(* segment of a handler: the code that runs between two awaits together    *)
(* with the store request the segment ends with (IndexedDB executes        *)
(* requests in the order they are issued; the continuation after the       *)
(* await runs later).  A handler that is called without await (the         *)
(* onRefreshSites() and onSiteChange() props) runs its first segment       *)
(* inside the caller's segment and continues as a pending task.            *)
(***************************************************************************)
EXTENDS Integers, Sequences, FiniteSets, TLC

\* ------------------------------------------------------------------ bounds
MaxSites == 3        \* site ids handed out by the auto-increment key
MaxRows == 1         \* rows added through the pages, per run
MaxPending == 1      \* un-awaited tasks that may be pending when the user acts
MaxCheckIns == 1     \* attendance records written, per page visit
MaxProductions == 2  \* production rows in the store of the report
MaxItems == 2        \* inventory rows in the store of the stock report
MaxValue == 200      \* arguments of getPercentage
MaxClock == 2        \* the last reading of the clock
MaxPurchases == 1    \* purchases added through the Purchases page
MaxProductionRows == 2  \* productions added through the Production page
MaxLaunches == 2     \* times the App is opened again
MaxInventoryRows == 1   \* items added through the Inventory page
MaxListRows == 3     \* rows of the stores the lists are loaded from
MaxFractions == 3    \* productions with fractional quantities
MaxDailyReports == 1 \* daily reports added through the Daily Reports page
MaxFiles == 7        \* files of one photo upload
MaxAttendance == 3   \* attendance records of one site and day
MaxStaff == 2        \* worker rows in the store of the report
MaxUploads == 2      \* photo uploads reading their files at once
MaxFailures == 1     \* store requests that fail, per run
MaxWorkerRows == 1   \* workers added through the Workers page

VARIABLES
    sites,           \* db.sites: id -> [isActive]
    nextSiteId,      \* the auto-increment key of db.sites
    rows,            \* the five site-owned Dexie tables: {[coll, id, siteId]}
    nextRowId,       \* the auto-increment key of each table
    attendanceStore, \* localStorage: <<siteId, date>> -> sequence of records
    uiSites,         \* App state `sites`
    activeSiteId,    \* App state `activeSiteId`
    isInitialized,   \* App state `isInitialized`
    currentPage,     \* App state `currentPage`
    todayRecords,    \* AttendancePage state
    isCheckedIn,     \* AttendancePage state
    fg,              \* the handler the user started, between its awaits
    bg,              \* handlers called without await, between their awaits
    overlap,         \* may the user act while un-awaited tasks are pending?
    productions,     \* db.productions, with its columns: id -> record
    workers,         \* db.workers, with its columns: id -> record
    inventory,       \* db.inventory, with its columns: id -> record
    dateRange,       \* ReportsPage state
    reportData,      \* ReportsPage state: <<>> is null
    inventoryList,   \* InventoryPage state `inventory`
    pctArgs,         \* the arguments of a call of getPercentage
    pctResult,       \* what the call returned: <<>> before it returns
    now,             \* the reading of the clock
    pageSiteId,      \* the siteId prop of the record page that is open
    purchases,       \* db.purchases, with its columns: id -> record
    nextPurchaseId,  \* the auto-increment key of db.purchases
    purchaseList,    \* PurchasesPage state `purchases`
    editingPurchase, \* PurchasesPage state: <<>> is null
    purchaseForm,    \* PurchasesPage state `formData`
    receiptError,    \* PurchasesPage state
    purchaseModalOpen,   \* PurchasesPage state `isModalOpen`
    nextProductionId,    \* the auto-increment key of db.productions
    productionList,      \* ProductionPage state `productions`
    editingProduction,   \* ProductionPage state: <<>> is null
    productionForm,      \* ProductionPage state `formData`
    productionModalOpen, \* ProductionPage state `isModalOpen`
    user,            \* AuthProvider state: <<>> is null
    viewMode,        \* AuthProvider state
    savedUser,       \* localStorage 'mineOrUser': <<>> is no entry
    loadUserPc,      \* where loadUser is: "mount", "await" or "done"
    renderArgs,      \* the state a call of renderPage reads
    renderResult,    \* the page the call returned: <<>> before it returns
    settings,        \* db.settings: id -> record
    nextSettingsId,  \* the auto-increment key of db.settings
    pageSettings,    \* SettingsPage state `settings`: <<>> is null
    launches,        \* how often the App has been opened again
    nextInventoryId, \* the auto-increment key of db.inventory
    editingItem,     \* InventoryPage state: <<>> is null
    inventoryForm,   \* InventoryPage state `formData`
    inventoryModalOpen,  \* InventoryPage state `isModalOpen`
    inventoryReloads,    \* calls of handleDelete that have yet to reload
    workerList,      \* WorkersPage state `workers`
    dailyReports,    \* db.dailyReports: id -> record
    nextDailyReportId,   \* the auto-increment key of db.dailyReports
    reportList,      \* DailyReportsPage state `reports`
    editingReport,   \* DailyReportsPage state: <<>> is null
    dailyForm,       \* DailyReportsPage state `formData`
    photos,          \* DailyReportsPage state
    reportModalOpen, \* DailyReportsPage state `isModalOpen`
    uploads,         \* calls of handlePhotoUpload between their awaits
    uncaught,        \* the handlers whose promise rejected with nothing to catch it
    errorLog,        \* the handlers whose catch called console.error
    nextWorkerId,    \* the auto-increment key of db.workers
    editingWorker,   \* WorkersPage state: <<>> is null
    workerForm,      \* WorkersPage state `formData`
    workerModalOpen  \* WorkersPage state `isModalOpen`

siteVars == <<sites, nextSiteId, rows, nextRowId, attendanceStore, uiSites,
              activeSiteId, isInitialized, currentPage, todayRecords,
              isCheckedIn, fg, bg, overlap>>

\* `rows` is the view of the five site-owned tables that the site handlers
\* need (table, key, owner); the report and the record pages read the
\* columns, which productions, workers and inventory hold.
reportVars == <<productions, workers, inventory, dateRange, reportData,
                inventoryList, pctArgs, pctResult>>

\* the clock and the state of the Purchases and the Production page
pageVars == <<now, pageSiteId, purchases, nextPurchaseId, purchaseList,
              editingPurchase, purchaseForm, receiptError, purchaseModalOpen,
              nextProductionId, productionList, editingProduction,
              productionForm, productionModalOpen>>

\* the AuthProvider, the stored profile and a call of renderPage
authVars == <<user, viewMode, savedUser, loadUserPc, renderArgs, renderResult>>

\* the settings and the Settings page's copy of them
settingsVars == <<settings, nextSettingsId, pageSettings, launches>>

\* the state of the Inventory page besides its list
inventoryPageVars == <<nextInventoryId, editingItem, inventoryForm,
                       inventoryModalOpen, inventoryReloads>>

\* the daily reports and the state of the Daily Reports page
dailyVars == <<dailyReports, nextDailyReportId, reportList, editingReport,
               dailyForm, photos, reportModalOpen, uploads>>

\* what the failures of store requests leave behind
errorVars == <<uncaught, errorLog>>

\* the state of the Workers page besides its list
workerPageVars == <<nextWorkerId, editingWorker, workerForm, workerModalOpen>>

laterVars == <<errorVars, workerPageVars>>

\* the pages of the inventory, the workers and the daily reports, and the
\* failures
moreVars == <<inventoryPageVars, workerList, dailyVars, laterVars>>

\* what the report and the record pages leave alone besides the sites
extraVars == <<authVars, settingsVars, moreVars>>

\* what the site handlers and the App shell leave alone
nonSiteVars == <<reportVars, pageVars, extraVars>>

vars == <<siteVars, nonSiteVars>>

\* ------------------------------------------------------------- the store
Collections == {"productions", "workers", "inventory", "purchases", "dailyReports"}

Today == "today"
UserId == 1

NoSites == [i \in {} |-> [isActive |-> FALSE]]

Min(S) == CHOOSE x \in S : \A y \in S : x <= y

\* (mutant) the activation forgets to clear the other sites' flags
ModifyNothing(s) == s

\* db.sites.toCollection().modify({ isActive: false })
ModifyAllInactive(s) == [i \in DOMAIN s |-> [s[i] EXCEPT !.isActive = FALSE]]

\* db.sites.update(id, { isActive: true }): nothing happens for a missing key
UpdateActive(s, id) ==
    IF id \in DOMAIN s THEN [s EXCEPT ![id].isActive = TRUE] ELSE s

\* db.sites.delete(id)
DeleteSite(s, id) == [i \in DOMAIN s \ {id} |-> s[i]]

\* db.<coll>.where('siteId').equals(id).delete()
DeleteWhereSite(r, coll, id) == {x \in r : ~(x.coll = coll /\ x.siteId = id)}

\* allSites.find(s => s.isActive)?.id, 0 when there is none
FindActive(s) ==
    LET act == {i \in DOMAIN s : s[i].isActive}
    IN IF act = {} THEN 0 ELSE Min(act)

\* sites.find(s => s.id !== id)?.id, 0 when there is none
FindRemaining(s, id) ==
    LET rest == DOMAIN s \ {id}
    IN IF rest = {} THEN 0 ELSE Min(rest)

\* the rows seedDatabase adds for the site it created
SeedRows(siteId) ==
    {[coll |-> "workers", id |-> i, siteId |-> siteId] : i \in 1..3}
    \cup {[coll |-> "productions", id |-> i, siteId |-> siteId] : i \in 1..14}
    \cup {[coll |-> "inventory", id |-> i, siteId |-> siteId] : i \in 1..2}

\* (mutant) a missing key is added with the changes as its row
UpsertRow(t, id, changes) ==
    [i \in DOMAIN t \cup {id} |->
        IF i \in DOMAIN t
        THEN IF i = id
             THEN [f \in DOMAIN t[i] |->
                     IF f \in DOMAIN changes THEN changes[f] ELSE t[i][f]]
             ELSE t[i]
        ELSE changes]

\* table.update(id, changes): nothing happens for a missing key
UpdateRow(t, id, changes) ==
    IF id \in DOMAIN t
    THEN [t EXCEPT ![id] = [f \in DOMAIN @ |->
                              IF f \in DOMAIN changes THEN changes[f] ELSE @[f]]]
    ELSE t

\* table.add(row) under the auto-increment key id
AddRow(t, id, row) ==
    [i \in DOMAIN t \cup {id} |->
        IF i = id
        THEN [f \in DOMAIN row \cup {"id"} |-> IF f = "id" THEN id ELSE row[f]]
        ELSE t[i]]

\* table.delete(id)
DeleteRow(t, id) == [i \in DOMAIN t \ {id} |-> t[i]]

\* ------------------------------------------------------------- the tasks
Idle == [op |-> "idle", pc |-> "", id |-> 0, snap |-> NoSites,
         sitesProp |-> NoSites, activeProp |-> 0]

Task(op, pc, id, snap) == [Idle EXCEPT !.op = op, !.pc = pc, !.id = id, !.snap = snap]

\* loadSites up to its await: db.sites.toArray() is issued
LoadSitesTask(s) == Task("loadSites", "apply", 0, s)

\* handleSiteChange up to its second await: modify is issued
SiteChangeTask(id) == Task("siteChange", "update", id, NoSites)

Remove(seq, k) == [i \in 1..(Len(seq) - 1) |-> IF i < k THEN seq[i] ELSE seq[i + 1]]

\* the user can start a handler
Ready == /\ fg = Idle
         /\ IF overlap THEN Len(bg) <= MaxPending ELSE bg = <<>>

\* renderPage shows a page (not the skeleton)
Rendered == isInitialized /\ activeSiteId # 0

\* --------------------------------------------------------- attendance page
\* loadTodayAttendance: the page state it leaves, given the state it found
LoadTodayAttendance(siteId, recs, checked) ==
    LET key == <<siteId, Today>> IN
    IF key \in DOMAIN attendanceStore
    THEN LET records == attendanceStore[key]
             mine == {i \in 1..Len(records) : records[i].workerId = UserId}
         IN [todayRecords |-> records,
             isCheckedIn |-> IF mine # {}
                             THEN records[Min(mine)].checkOut = "null"
                             ELSE checked]
    ELSE [todayRecords |-> recs, isCheckedIn |-> checked]

\* The attendance page after a render in which the page shown, the skeleton
\* flag or the siteId prop may have changed: a fresh mount starts from the
\* initial state and runs the effect, a changed siteId re-runs the effect,
\* and an unmounted page has no state.
AttendanceAfter(page, shown, siteId) ==
    LET wasMounted == currentPage = "attendance" /\ Rendered
        mounted == page = "attendance" /\ shown
        st == IF ~mounted THEN [todayRecords |-> <<>>, isCheckedIn |-> FALSE]
              ELSE IF ~wasMounted THEN LoadTodayAttendance(siteId, <<>>, FALSE)
              ELSE IF siteId # activeSiteId
                   THEN LoadTodayAttendance(siteId, todayRecords, isCheckedIn)
              ELSE [todayRecords |-> todayRecords, isCheckedIn |-> isCheckedIn]
    IN /\ todayRecords' = st.todayRecords
       /\ isCheckedIn' = st.isCheckedIn

\* setActiveSiteId(id), with the render that follows
SetActiveSiteId(id) ==
    /\ activeSiteId' = id
    /\ AttendanceAfter(currentPage, isInitialized, id)

\* handleCheckIn, from the 'Pointer' button that is shown when ~isCheckedIn
handleCheckInUpTo(limit) ==
    /\ Ready /\ Rendered /\ currentPage = "attendance"
    /\ ~isCheckedIn
    /\ Len(todayRecords) < limit
    /\ LET newRecord == [siteId |-> activeSiteId, date |-> Today,
                         workerId |-> UserId, checkOut |-> "null"]
           updatedRecords == Append(todayRecords, newRecord)
           key == <<activeSiteId, Today>>
       IN /\ todayRecords' = updatedRecords
          /\ attendanceStore' =
                [k \in DOMAIN attendanceStore \cup {key} |->
                    IF k = key THEN updatedRecords ELSE attendanceStore[k]]
    /\ isCheckedIn' = TRUE
    /\ UNCHANGED <<sites, nextSiteId, rows, nextRowId, uiSites, activeSiteId,
                   isInitialized, currentPage, fg, bg, overlap>>
    /\ UNCHANGED nonSiteVars

handleCheckIn == handleCheckInUpTo(MaxCheckIns)

handleCheckOut ==
    /\ Ready /\ Rendered /\ currentPage = "attendance"
    /\ isCheckedIn
    /\ LET updatedRecords ==
               [i \in 1..Len(todayRecords) |->
                   IF todayRecords[i].workerId = UserId
                      /\ todayRecords[i].checkOut = "null"
                   THEN [todayRecords[i] EXCEPT !.checkOut = "time"]
                   ELSE todayRecords[i]]
           key == <<activeSiteId, Today>>
       IN /\ todayRecords' = updatedRecords
          /\ attendanceStore' =
                [k \in DOMAIN attendanceStore \cup {key} |->
                    IF k = key THEN updatedRecords ELSE attendanceStore[k]]
    /\ isCheckedIn' = FALSE
    /\ UNCHANGED <<sites, nextSiteId, rows, nextRowId, uiSites, activeSiteId,
                   isInitialized, currentPage, fg, bg, overlap>>
    /\ UNCHANGED nonSiteVars

\* ------------------------------------------------------------ navigation
Pages == {"dashboard", "production", "workers", "inventory", "purchases",
          "reports", "settings", "profile", "attendance"}

\* setCurrentPage(page)
handleNavigate(page) ==
    /\ Ready
    /\ page # currentPage
    /\ currentPage' = page
    /\ AttendanceAfter(page, Rendered, activeSiteId)
    /\ UNCHANGED <<sites, nextSiteId, rows, nextRowId, attendanceStore, uiSites,
                   activeSiteId, isInitialized, fg, bg, overlap>>
    /\ UNCHANGED nonSiteVars

\* ------------------------------------------------------------- App shell
\* The slots a pending task can be in: 0 is the handler the user started,
\* k > 0 is the k-th handler that was called without await.
Slots == {0} \cup (1..Len(bg))

TaskAt(k) == IF k = 0 THEN fg ELSE bg[k]

\* slot k continues as task t (Idle: it has returned), after calling the
\* handlers `spawned` without await
Continue(k, t, spawned) ==
    IF k = 0
    THEN /\ fg' = t
         /\ bg' = bg \o spawned
    ELSE /\ fg' = fg
         /\ bg' = (IF t = Idle THEN Remove(bg, k) ELSE [bg EXCEPT ![k] = t]) \o spawned

\* the settings seedDatabase adds and getSettings falls back to
DefaultSettings(updatedAt) ==
    [showVsYesterday |-> TRUE, showVsLastWeek |-> TRUE, showWorkingDays |-> TRUE,
     showProductionComparison |-> TRUE, showPurchaseComparison |-> TRUE,
     theme |-> "dark", language |-> "fr", updatedAt |-> updatedAt]

\* the state of the pages and of the providers that the App shell and the
\* seeding leave alone
seedOther == <<reportVars, pageVars, authVars, pageSettings, launches, moreVars>>

\* initApp: seedDatabase reads db.sites.count(); with a site in the store
\* it returns, and loadSites runs up to its await
initAppSeed ==
    /\ fg.op = "initApp" /\ fg.pc = "seed"
    /\ fg' = IF Cardinality(DOMAIN sites) = 0
             THEN Task("initApp", "addSite", 0, NoSites)
             ELSE Task("initApp", "apply", 0, sites)
    /\ UNCHANGED <<sites, nextSiteId, rows, nextRowId, attendanceStore, uiSites,
                   activeSiteId, isInitialized, currentPage, todayRecords,
                   isCheckedIn, bg, overlap>>
    /\ UNCHANGED <<seedOther, settings, nextSettingsId>>

\* seedDatabase: db.sites.add of the default site
seedAddSite ==
    /\ fg.op = "initApp" /\ fg.pc = "addSite"
    /\ sites' = [i \in DOMAIN sites \cup {nextSiteId} |->
                    IF i = nextSiteId THEN [isActive |-> TRUE] ELSE sites[i]]
    /\ nextSiteId' = nextSiteId + 1
    /\ fg' = Task("initApp", "addSettings", nextSiteId, NoSites)
    /\ UNCHANGED <<rows, nextRowId, attendanceStore, uiSites, activeSiteId,
                   isInitialized, currentPage, todayRecords, isCheckedIn, bg,
                   overlap>>
    /\ UNCHANGED <<seedOther, settings, nextSettingsId>>

\* seedDatabase: db.settings.add of the default settings
seedAddSettings ==
    /\ fg.op = "initApp" /\ fg.pc = "addSettings"
    /\ settings' = AddRow(settings, nextSettingsId, DefaultSettings(now))
    /\ nextSettingsId' = nextSettingsId + 1
    /\ fg' = [fg EXCEPT !.pc = "addRows"]
    /\ UNCHANGED <<sites, nextSiteId, rows, nextRowId, attendanceStore, uiSites,
                   activeSiteId, isInitialized, currentPage, todayRecords,
                   isCheckedIn, bg, overlap>>
    /\ UNCHANGED seedOther

\* seedDatabase: the sample workers, productions and inventory are added
\* and it returns; loadSites runs up to its await
seedAddRows ==
    /\ fg.op = "initApp" /\ fg.pc = "addRows"
    /\ rows' = rows \cup SeedRows(fg.id)
    /\ nextRowId' = [nextRowId EXCEPT !["workers"] = @ + 3,
                                      !["productions"] = @ + 14,
                                      !["inventory"] = @ + 2]
    /\ fg' = Task("initApp", "apply", 0, sites)
    /\ UNCHANGED <<sites, nextSiteId, attendanceStore, uiSites, activeSiteId,
                   isInitialized, currentPage, todayRecords, isCheckedIn, bg,
                   overlap>>
    /\ UNCHANGED <<seedOther, settings, nextSettingsId>>

\* initApp: the rest of loadSites, then setIsInitialized(true)
initAppDone ==
    /\ fg.op = "initApp" /\ fg.pc = "apply"
    /\ uiSites' = fg.snap
    /\ isInitialized' = TRUE
    /\ LET active == FindActive(fg.snap)
           id == IF active # 0 THEN active ELSE activeSiteId
       IN /\ activeSiteId' = id
          /\ AttendanceAfter(currentPage, id # 0, id)
    /\ fg' = Idle
    /\ UNCHANGED <<sites, nextSiteId, rows, nextRowId, attendanceStore,
                   currentPage, bg, overlap>>
    /\ UNCHANGED nonSiteVars

\* loadSites after its await: setSites(allSites) and, when a site is active,
\* setActiveSiteId(active.id).  The last segment of handleSiteChange too.
loadSitesApply(k) ==
    /\ k \in Slots
    /\ TaskAt(k).op \in {"loadSites", "siteChange"} /\ TaskAt(k).pc = "apply"
    /\ uiSites' = TaskAt(k).snap
    /\ LET active == FindActive(TaskAt(k).snap)
       IN SetActiveSiteId(IF active # 0 THEN active ELSE activeSiteId)
    /\ Continue(k, Idle, <<>>)
    /\ UNCHANGED <<sites, nextSiteId, rows, nextRowId, attendanceStore,
                   isInitialized, currentPage, overlap>>
    /\ UNCHANGED nonSiteVars

\* handleSiteChange(id), from the site menu: modify({isActive: false}) is issued
handleSiteChange(id) ==
    /\ Ready
    /\ id \in DOMAIN uiSites
    /\ sites' = ModifyAllInactive(sites)
    /\ fg' = SiteChangeTask(id)
    /\ UNCHANGED <<nextSiteId, rows, nextRowId, attendanceStore, uiSites,
                   activeSiteId, isInitialized, currentPage, todayRecords,
                   isCheckedIn, bg, overlap>>
    /\ UNCHANGED nonSiteVars

\* handleSiteChange after its first await: update(id, {isActive: true})
siteChangeUpdate(k) ==
    /\ k \in Slots
    /\ TaskAt(k).op = "siteChange" /\ TaskAt(k).pc = "update"
    /\ sites' = UpdateActive(sites, TaskAt(k).id)
    /\ Continue(k, [TaskAt(k) EXCEPT !.pc = "load"], <<>>)
    /\ UNCHANGED <<nextSiteId, rows, nextRowId, attendanceStore, uiSites,
                   activeSiteId, isInitialized, currentPage, todayRecords,
                   isCheckedIn, overlap>>
    /\ UNCHANGED nonSiteVars

\* handleSiteChange after its second await: setActiveSiteId(id), and
\* loadSites up to its await
siteChangeLoad(k) ==
    /\ k \in Slots
    /\ TaskAt(k).op = "siteChange" /\ TaskAt(k).pc = "load"
    /\ SetActiveSiteId(TaskAt(k).id)
    /\ Continue(k, [TaskAt(k) EXCEPT !.pc = "apply", !.snap = sites], <<>>)
    /\ UNCHANGED <<sites, nextSiteId, rows, nextRowId, attendanceStore, uiSites,
                   isInitialized, currentPage, overlap>>
    /\ UNCHANGED nonSiteVars

\* ---------------------------------------------------------- Settings page
SettingsShown == Rendered /\ currentPage = "settings"

\* handleSetActiveSite(id): modify({isActive: false}) is issued
handleSetActiveSite(id) ==
    /\ Ready /\ SettingsShown
    /\ id \in DOMAIN uiSites /\ id # activeSiteId
    /\ sites' = ModifyAllInactive(sites)
    /\ fg' = Task("setActive", "update", id, NoSites)
    /\ UNCHANGED <<nextSiteId, rows, nextRowId, attendanceStore, uiSites,
                   activeSiteId, isInitialized, currentPage, todayRecords,
                   isCheckedIn, bg, overlap>>
    /\ UNCHANGED nonSiteVars

\* handleSetActiveSite after its first await: update(id, {isActive: true})
setActiveUpdate ==
    /\ fg.op = "setActive" /\ fg.pc = "update"
    /\ sites' = UpdateActive(sites, fg.id)
    /\ fg' = [fg EXCEPT !.pc = "spawn"]
    /\ UNCHANGED <<nextSiteId, rows, nextRowId, attendanceStore, uiSites,
                   activeSiteId, isInitialized, currentPage, todayRecords,
                   isCheckedIn, bg, overlap>>
    /\ UNCHANGED nonSiteVars

\* handleSetActiveSite after its second await: onSiteChange(id) and
\* onRefreshSites(), neither awaited
setActiveSpawn ==
    /\ fg.op = "setActive" /\ fg.pc = "spawn"
    /\ sites' = ModifyAllInactive(sites)
    /\ Continue(0, Idle, <<SiteChangeTask(fg.id), LoadSitesTask(sites')>>)
    /\ UNCHANGED <<nextSiteId, rows, nextRowId, attendanceStore, uiSites,
                   activeSiteId, isInitialized, currentPage, todayRecords,
                   isCheckedIn, overlap>>
    /\ UNCHANGED nonSiteVars

\* handleSaveSite with no editingSite: db.sites.add is issued
handleSaveSiteAdd ==
    /\ Ready /\ SettingsShown
    /\ nextSiteId <= MaxSites
    /\ sites' = [i \in DOMAIN sites \cup {nextSiteId} |->
                    IF i = nextSiteId
                    THEN [isActive |-> Cardinality(DOMAIN uiSites) = 0]
                    ELSE sites[i]]
    /\ nextSiteId' = nextSiteId + 1
    /\ fg' = Task("saveSite", "refresh", 0, NoSites)
    /\ UNCHANGED <<rows, nextRowId, attendanceStore, uiSites, activeSiteId,
                   isInitialized, currentPage, todayRecords, isCheckedIn, bg,
                   overlap>>
    /\ UNCHANGED nonSiteVars

\* handleSaveSite with an editingSite: db.sites.update(id, {name, location})
\* is issued; it changes neither the key nor isActive
handleSaveSiteEdit(id) ==
    /\ Ready /\ SettingsShown
    /\ id \in DOMAIN uiSites
    /\ fg' = Task("saveSite", "refresh", id, NoSites)
    /\ UNCHANGED <<sites, nextSiteId, rows, nextRowId, attendanceStore, uiSites,
                   activeSiteId, isInitialized, currentPage, todayRecords,
                   isCheckedIn, bg, overlap>>
    /\ UNCHANGED nonSiteVars

\* handleSaveSite after its await: onRefreshSites(), not awaited
saveSiteRefresh ==
    /\ fg.op = "saveSite" /\ fg.pc = "refresh"
    /\ Continue(0, Idle, <<LoadSitesTask(sites)>>)
    /\ UNCHANGED <<sites, nextSiteId, rows, nextRowId, attendanceStore, uiSites,
                   activeSiteId, isInitialized, currentPage, todayRecords,
                   isCheckedIn, overlap>>
    /\ UNCHANGED nonSiteVars

\* the guard of handleDeleteSite: `if (sites.length <= 1) { alert; return }`
MayDeleteSite(sitesProp) == Cardinality(DOMAIN sitesProp) > 1

\* handleDeleteSite(id), confirmed: db.sites.delete(id) is issued
handleDeleteSite(id) ==
    /\ Ready /\ SettingsShown
    /\ id \in DOMAIN uiSites
    /\ MayDeleteSite(uiSites)
    /\ sites' = DeleteSite(sites, id)
    /\ fg' = [Task("deleteSite", "productions", id, NoSites)
                 EXCEPT !.sitesProp = uiSites, !.activeProp = activeSiteId]
    /\ UNCHANGED <<nextSiteId, rows, nextRowId, attendanceStore, uiSites,
                   activeSiteId, isInitialized, currentPage, todayRecords,
                   isCheckedIn, bg, overlap>>
    /\ UNCHANGED nonSiteVars

\* the tables handleDeleteSite clears, in the order of its awaits
CascadeNext(coll) ==
    CASE coll = "productions" -> "workers"
      [] coll = "workers" -> "inventory"
      [] coll = "inventory" -> "purchases"
      [] coll = "purchases" -> "dailyReports"
      [] coll = "dailyReports" -> "finish"

\* handleDeleteSite: db.<coll>.where('siteId').equals(id).delete()
deleteSiteCascade ==
    /\ fg.op = "deleteSite" /\ fg.pc \in Collections
    /\ rows' = DeleteWhereSite(rows, fg.pc, fg.id)
    /\ fg' = [fg EXCEPT !.pc = CascadeNext(fg.pc)]
    /\ UNCHANGED <<sites, nextSiteId, nextRowId, attendanceStore, uiSites,
                   activeSiteId, isInitialized, currentPage, todayRecords,
                   isCheckedIn, bg, overlap>>
    /\ UNCHANGED nonSiteVars

\* handleDeleteSite after its last await: onRefreshSites(), and for the
\* active site onSiteChange(remaining.id), neither awaited
deleteSiteFinish ==
    /\ fg.op = "deleteSite" /\ fg.pc = "finish"
    /\ LET remaining == FindRemaining(fg.sitesProp, fg.id)
           switch == /\ fg.id = fg.activeProp
                     /\ Cardinality(DOMAIN fg.sitesProp) > 1
                     /\ remaining # 0
       IN /\ sites' = IF switch THEN ModifyAllInactive(sites) ELSE sites
          /\ Continue(0, Idle,
                <<LoadSitesTask(sites)>>
                \o (IF switch THEN <<SiteChangeTask(remaining)>> ELSE <<>>))
    /\ UNCHANGED <<nextSiteId, rows, nextRowId, attendanceStore, uiSites,
                   activeSiteId, isInitialized, currentPage, todayRecords,
                   isCheckedIn, overlap>>
    /\ UNCHANGED nonSiteVars

\* ------------------------------------------------------- the record pages
PageOf(coll) ==
    CASE coll = "productions" -> "production"
      [] coll = "workers" -> "workers"
      [] coll = "inventory" -> "inventory"
      [] coll = "purchases" -> "purchases"
      [] coll = "dailyReports" -> "reports"

SeedCount(coll) ==
    CASE coll = "productions" -> 14
      [] coll = "workers" -> 3
      [] coll = "inventory" -> 2
      [] OTHER -> 0

RECURSIVE SumOver(_, _)
SumOver(f, S) ==
    IF S = {} THEN 0
    ELSE LET x == CHOOSE y \in S : TRUE IN f[x] + SumOver(f, S \ {x})

\* rows added through the pages so far
RowsAdded == SumOver([c \in Collections |-> nextRowId[c] - 1 - SeedCount(c)], Collections)

\* handleSubmit of a record page with nothing being edited:
\* db.<coll>.add({ siteId, ... }) with the page's siteId prop
handleSubmitAdd(coll) ==
    /\ Ready /\ Rendered
    /\ currentPage = PageOf(coll)
    /\ RowsAdded < MaxRows
    /\ rows' = rows \cup {[coll |-> coll, id |-> nextRowId[coll], siteId |-> activeSiteId]}
    /\ nextRowId' = [nextRowId EXCEPT ![coll] = @ + 1]
    /\ UNCHANGED <<sites, nextSiteId, attendanceStore, uiSites, activeSiteId,
                   isInitialized, currentPage, todayRecords, isCheckedIn, fg,
                   bg, overlap>>
    /\ UNCHANGED nonSiteVars

\* ------------------------------------------------------------ arithmetic
Max(a, b) == IF a >= b THEN a ELSE b

Abs(a) == IF a >= 0 THEN a ELSE -a

\* Math.ceil(n / d) for d > 0
CeilDiv(n, d) == -((-n) \div d)

\* Math.round(n / d) for d > 0: the double n / d is the correctly rounded
\* quotient, so a tie k + 1/2 is exact and Math.round takes it up
RoundDiv(n, d) == (2 * n + d) \div (2 * d)

\* (mutant) the percentage is truncated instead of rounded
PercentageTruncated(value, total) ==
    IF total > 0 THEN {(100 * value) \div total} ELSE {0}

\* getPercentage: total > 0 ? Math.round((value / total) * 100) : 0, as the
\* set of results the doubles can give.  value / total and its product with
\* 100 are both rounded, so where the exact percentage is a tie k + 1/2 the
\* double may lie just under it and Math.round then gives k, not k + 1.
getPercentage(value, total) ==
    IF total > 0
    THEN LET up == RoundDiv(100 * value, total)
         IN IF (200 * value + total) % (2 * total) = 0 THEN {up - 1, up} ELSE {up}
    ELSE {0}

\* ------------------------------------------------------------------ dates
\* A calendar day 'YYYY-MM-DD' is <<y, m, d>>; the strings compare as the
\* tuples do.
DateLeq(a, b) ==
    \/ a[1] < b[1]
    \/ a[1] = b[1] /\ a[2] < b[2]
    \/ a[1] = b[1] /\ a[2] = b[2] /\ a[3] <= b[3]

\* 1000 * 60 * 60 * 24 ms, counted in seconds: the model counts time in
\* seconds to stay within 32-bit integers; the code's milliseconds are 1000
\* times these values in the dividend and the divisor alike
SecPerDay == 86400

\* the days of the year before month m, in 2024
DaysBeforeMonth(m) ==
    CASE m = 1 -> 0
      [] m = 2 -> 31
      [] m = 3 -> 60
      [] OTHER -> 91

\* new Date('YYYY-MM-DD').getTime(), in seconds from 2024-01-01T00:00Z (the
\* offset from the epoch cancels in every difference the code takes)
GetTime(date) == (DaysBeforeMonth(date[2]) + date[3] - 1) * SecPerDay

\* ---------------------------------------------------------------- tables
RECURSIVE ToArray(_)
\* table.toArray(): the rows in key order
ToArray(t) ==
    IF DOMAIN t = {} THEN <<>>
    ELSE LET k == Min(DOMAIN t)
         IN <<t[k]>> \o ToArray([i \in DOMAIN t \ {k} |-> t[i]])

\* A text is the sequence of its code units; a < b on strings
RECURSIVE StrLess(_, _)
StrLess(a, b) ==
    IF b = <<>> THEN FALSE
    ELSE IF a = <<>> THEN TRUE
    ELSE IF a[1] # b[1] THEN a[1] < b[1]
    ELSE StrLess(Tail(a), Tail(b))

\* where(...).sortBy(field) on the rows of table t under `keys`, field a
\* text: ascending on the field; rows with equal fields stay in the order
\* they are read, keys ascending
RECURSIVE SortBy(_, _, _)
SortBy(t, keys, field) ==
    IF keys = {} THEN <<>>
    ELSE LET first == CHOOSE x \in keys : \A y \in keys \ {x} :
                         \/ StrLess(t[x][field], t[y][field])
                         \/ t[x][field] = t[y][field] /\ x < y
         IN <<t[first]>> \o SortBy(t, keys \ {first}, field)

\* the keys of the rows of a site
SiteKeys(t, siteId) == {k \in DOMAIN t : t[k].siteId = siteId}

RECURSIVE SumSeq(_)
\* reduce((sum, x) => sum + x, 0)
SumSeq(q) == IF q = <<>> THEN 0 ELSE q[1] + SumSeq(Tail(q))

RECURSIVE GroupSum(_, _)
\* forEach(p => { acc[key] = (acc[key] || 0) + value }) over the rows whose
\* keys and values are the two sequences
GroupSum(keys, values) ==
    IF keys = <<>> THEN [k \in {} |-> 0]
    ELSE LET n == Len(keys)
             acc == GroupSum(SubSeq(keys, 1, n - 1), SubSeq(values, 1, n - 1))
             old == IF keys[n] \in DOMAIN acc THEN acc[keys[n]] ELSE 0
         IN [k \in DOMAIN acc \cup {keys[n]} |->
                IF k = keys[n] THEN old + values[n] ELSE acc[k]]

\* ------------------------------------------------------------ ReportsPage
\* the day the report page is opened, and the range it starts with:
\* start = today - 30 days, end = today
ReportToday == <<2024, 1, 31>>
DefaultRange == [start |-> <<2024, 1, 1>>, end |-> ReportToday]

\* the filter of generateReport: p.date >= start && p.date <= end
InRange(p, range) == DateLeq(range.start, p.date) /\ DateLeq(p.date, range.end)

\* the divisor of the daily average
DaysDiff(range) ==
    Max(1, CeilDiv(GetTime(range.end) - GetTime(range.start), SecPerDay))

\* inventory.filter(item => item.quantity <= item.minQuantity).length
ReportLowStockItems(items) ==
    LET low(item) == item.quantity <= item.minQuantity
    IN Len(SelectSeq(items, low))

\* generateReport, had it read the rows of the active site only
GenerateReportOfSite(range) ==
    LET ofSite(x) == x.siteId = activeSiteId
        inRange(p) == InRange(p, range)
        filteredProductions == SelectSeq(SelectSeq(ToArray(productions), ofSite), inRange)
        n == Len(filteredProductions)
        grams == [i \in 1..n |-> filteredProductions[i].quantityGrams]
        totalProduction == SumSeq(grams)
        isActiveWorker(w) == w.status = "active"
        siteWorkers == SelectSeq(ToArray(workers), ofSite)
        siteInventory == SelectSeq(ToArray(inventory), ofSite)
    IN [totalProduction |-> totalProduction,
        productionByTeam |-> GroupSum([i \in 1..n |-> filteredProductions[i].team], grams),
        productionByShift |-> GroupSum([i \in 1..n |-> filteredProductions[i].shift], grams),
        activeWorkers |-> Len(SelectSeq(siteWorkers, isActiveWorker)),
        totalWorkers |-> Len(siteWorkers),
        inventoryValue |-> Len(siteInventory),
        lowStockItems |-> ReportLowStockItems(siteInventory),
        dailyAverage |-> RoundDiv(totalProduction, DaysDiff(range))]

\* generateReport: the record it hands to setReportData
GenerateReport(range) ==
    LET all == ToArray(productions)
        inRange(p) == InRange(p, range)
        filteredProductions == SelectSeq(all, inRange)
        n == Len(filteredProductions)
        grams == [i \in 1..n |-> filteredProductions[i].quantityGrams]
        totalProduction == SumSeq(grams)
        isActiveWorker(w) == w.status = "active"
    IN [totalProduction |-> totalProduction,
        productionByTeam |-> GroupSum([i \in 1..n |-> filteredProductions[i].team], grams),
        productionByShift |-> GroupSum([i \in 1..n |-> filteredProductions[i].shift], grams),
        activeWorkers |-> Len(SelectSeq(ToArray(workers), isActiveWorker)),
        totalWorkers |-> Len(ToArray(workers)),
        inventoryValue |-> Len(ToArray(inventory)),
        lowStockItems |-> ReportLowStockItems(ToArray(inventory)),
        dailyAverage |-> RoundDiv(totalProduction, DaysDiff(range))]

\* the effect that runs generateReport when the page mounts
generateReport ==
    /\ reportData = <<>>
    /\ reportData' = <<GenerateReport(dateRange)>>
    /\ UNCHANGED <<productions, workers, inventory, dateRange, inventoryList,
                   pctArgs, pctResult>>
    /\ UNCHANGED <<siteVars, pageVars, extraVars>>

\* setDateRange from one of the two date inputs, and the effect on
\* [dateRange] that runs generateReport
setDateRange(start, end) ==
    /\ reportData # <<>>
    /\ (start = dateRange.start) # (end = dateRange.end)
    /\ dateRange' = [start |-> start, end |-> end]
    /\ reportData' = <<GenerateReport(dateRange')>>
    /\ UNCHANGED <<productions, workers, inventory, inventoryList, pctArgs,
                   pctResult>>
    /\ UNCHANGED <<siteVars, pageVars, extraVars>>

\* ---------------------------------------------- sums of fractional numbers
\* quantityGrams comes from an input with step="0.01", so it need not be a
\* whole number, and `a + b` on numbers is the IEEE 754 double addition:
\* the exact sum rounded to 53 significant bits, ties to even.  A positive
\* double is its exponent and its 53 significand bits, the first one 1:
\* the number bits * 2^(exp - 52); 0 has no bits.  (The sums of whole grams
\* above are exact and use the integers.)
SignificandBits == 53

Zeros(n) == [i \in 1..n |-> 0]

\* the binary sum of two bit sequences of equal length and a carry:
\* c[i] is the carry out of the bits after the i-th
AddBits(a, b, carry) ==
    LET n == Len(a)
        c[i \in 0..n] == IF i = n THEN carry
                         ELSE (a[i + 1] + b[i + 1] + c[i + 1]) \div 2
        sum == [i \in 1..n |-> (a[i] + b[i] + c[i]) % 2]
    IN IF c[0] = 1 THEN <<1>> \o sum ELSE sum

\* bits, with first bit 1 of weight 2^exp, rounded to a double
RoundBits(bits, exp) ==
    LET n == Len(bits) IN
    IF n <= SignificandBits
    THEN [exp |-> exp, bits |-> bits \o Zeros(SignificandBits - n)]
    ELSE LET keep == SubSeq(bits, 1, SignificandBits)
             rest == SubSeq(bits, SignificandBits + 1, n)
             more == \E i \in 2..Len(rest) : rest[i] = 1
             up == rest[1] = 1 /\ (more \/ keep[SignificandBits] = 1)
             next == AddBits(keep, Zeros(SignificandBits - 1) \o <<1>>, 0)
         IN IF ~up THEN [exp |-> exp, bits |-> keep]
            ELSE IF Len(next) = SignificandBits THEN [exp |-> exp, bits |-> next]
            ELSE [exp |-> exp + 1, bits |-> SubSeq(next, 1, SignificandBits)]

DoubleZero == [exp |-> 0, bits |-> <<>>]

\* a + b on doubles that are positive or 0
Plus(a, b) ==
    IF a.bits = <<>> THEN b
    ELSE IF b.bits = <<>> THEN a
    ELSE LET hi == IF a.exp >= b.exp THEN a ELSE b
             lo == IF a.exp >= b.exp THEN b ELSE a
             d == hi.exp - lo.exp
             sum == AddBits(hi.bits \o Zeros(d), Zeros(d) \o lo.bits, 0)
         IN RoundBits(sum, hi.exp + Len(sum) - (SignificandBits + d))

\* the bits of a sequence of hexadecimal digits
RECURSIVE HexBits(_)
HexBits(h) ==
    IF h = <<>> THEN <<>>
    ELSE <<h[1] \div 8, (h[1] \div 4) % 2, (h[1] \div 2) % 2, h[1] % 2>>
             \o HexBits(Tail(h))

\* the double 0x1.<hex>p<exp>
Double(exp, hex) == [exp |-> exp, bits |-> <<1>> \o HexBits(hex)]

\* Number('0.1'), Number('0.2') and Number('0.3'): 0x1.999999999999ap-4,
\* 0x1.999999999999ap-3 and 0x1.3333333333333p-2
Tenth == Double(-4, <<9, 9, 9, 9, 9, 9, 9, 9, 9, 9, 9, 9, 10>>)
TwoTenths == Double(-3, <<9, 9, 9, 9, 9, 9, 9, 9, 9, 9, 9, 9, 10>>)
ThreeTenths == Double(-2, <<3, 3, 3, 3, 3, 3, 3, 3, 3, 3, 3, 3, 3>>)

RECURSIVE SumDouble(_)
\* reduce((sum, x) => sum + x, 0), from the left
SumDouble(q) ==
    IF q = <<>> THEN DoubleZero
    ELSE Plus(SumDouble(SubSeq(q, 1, Len(q) - 1)), q[Len(q)])

RECURSIVE GroupSumDouble(_, _)
\* forEach(p => { acc[key] = (acc[key] || 0) + value })
GroupSumDouble(keys, values) ==
    IF keys = <<>> THEN [k \in {} |-> DoubleZero]
    ELSE LET n == Len(keys)
             acc == GroupSumDouble(SubSeq(keys, 1, n - 1), SubSeq(values, 1, n - 1))
             old == IF keys[n] \in DOMAIN acc THEN acc[keys[n]] ELSE DoubleZero
         IN [k \in DOMAIN acc \cup {keys[n]} |->
                IF k = keys[n] THEN Plus(old, values[n]) ELSE acc[k]]

\* generateReport over productions whose quantityGrams are doubles: the
\* sums it hands to setReportData
GenerateReportSums(range) ==
    LET all == ToArray(productions)
        inRange(p) == InRange(p, range)
        filteredProductions == SelectSeq(all, inRange)
        n == Len(filteredProductions)
        grams == [i \in 1..n |-> filteredProductions[i].quantityGrams]
    IN [totalProduction |-> SumDouble(grams),
        productionByTeam |->
            GroupSumDouble([i \in 1..n |-> filteredProductions[i].team], grams),
        productionByShift |->
            GroupSumDouble([i \in 1..n |-> filteredProductions[i].shift], grams)]

\* the effect that runs generateReport when the page mounts
generateReportSums ==
    /\ reportData = <<>>
    /\ reportData' = <<GenerateReportSums(dateRange)>>
    /\ UNCHANGED <<productions, workers, inventory, dateRange, inventoryList,
                   pctArgs, pctResult>>
    /\ UNCHANGED <<siteVars, pageVars, extraVars>>

\* ---------------------------------------------------------- InventoryPage
\* (mutant) an item exactly at its minimum is not flagged
isLowStockStrict(item) == item.quantity < item.minQuantity

\* isLowStock
isLowStock(item) == item.quantity <= item.minQuantity

\* inventory.filter(isLowStock).length
lowStockCount == Len(SelectSeq(inventoryList, isLowStock))

\* db.inventory.where('siteId').equals(siteId).sortBy('name')
LoadInventory(t, siteId) == SortBy(t, SiteKeys(t, siteId), "name")

\* loadInventory for the page's siteId prop
loadInventory(siteId) ==
    /\ inventoryList' = LoadInventory(inventory, siteId)
    /\ inventoryList' # inventoryList
    /\ UNCHANGED <<productions, workers, inventory, dateRange, reportData,
                   pctArgs, pctResult>>
    /\ UNCHANGED <<siteVars, pageVars, extraVars>>

\* a call getPercentage(value, total) returns
callGetPercentage ==
    /\ pctResult = <<>>
    /\ \E r \in getPercentage(pctArgs[1], pctArgs[2]) : pctResult' = <<r>>
    /\ UNCHANGED <<productions, workers, inventory, dateRange, reportData,
                   inventoryList, pctArgs>>
    /\ UNCHANGED <<siteVars, pageVars, extraVars>>

\* ------------------------------------------------------------- the clock
\* new Date() read by getTimestamp.  A reading is the count of milliseconds;
\* toISOString() gives strings that compare as the readings do.  Time passes
\* between the user's actions.
Tick ==
    /\ now < MaxClock
    /\ now' = now + 1
    /\ UNCHANGED <<pageSiteId, purchases, nextPurchaseId, purchaseList,
                   editingPurchase, purchaseForm, receiptError,
                   purchaseModalOpen, nextProductionId, productionList,
                   editingProduction, productionForm, productionModalOpen>>
    /\ UNCHANGED <<siteVars, reportVars, extraVars>>

\* (mutant) getTimestamp gives the time the page was loaded
StaleReadings(from) == {0}

\* the readings two successive calls of getTimestamp can give within one
\* synchronous stretch of code: the clock may advance between the two
Readings(from) == {t \in from..(from + 1) : t <= MaxClock}

\* ------------------------------------------------------------ form fields
\* The text of a number input is the sequence of its digits; '' is <<>>.
RECURSIVE Number(_)
\* Number(text): Number('') is 0
Number(text) ==
    IF text = <<>> THEN 0
    ELSE 10 * Number(SubSeq(text, 1, Len(text) - 1)) + text[Len(text)]

RECURSIVE String(_)
\* String(n) for an integer n >= 0
String(n) == IF n < 10 THEN <<n>> ELSE String(n \div 10) \o <<n % 10>>

\* where(...).reverse().sortBy(field): descending on the field; rows with
\* equal fields stay in the order reverse() reads them, keys descending
SortKey(r, field) == IF field = "date" THEN GetTime(r.date) ELSE r[field]

RECURSIVE ReverseSortBy(_, _)
ReverseSortBy(S, field) ==
    IF S = {} THEN <<>>
    ELSE LET first == CHOOSE x \in S : \A y \in S :
                         \/ SortKey(y, field) < SortKey(x, field)
                         \/ SortKey(y, field) = SortKey(x, field) /\ y.id <= x.id
         IN <<first>> \o ReverseSortBy(S \ {first}, field)

\* (mutant) the rows of every site
WhereAnySite(t, siteId) == {t[i] : i \in DOMAIN t}

\* where('siteId').equals(siteId) on a table
WhereSite(t, siteId) == {t[i] : i \in {j \in DOMAIN t : t[j].siteId = siteId}}

\* ---------------------------------------------------------- PurchasesPage
\* The columns of a purchase that the handlers compute: item stands for the
\* text fields the form copies through (currency, supplier, category, notes).
\* Each handler runs to its end before the next one starts.
EmptyPurchaseForm == [item |-> "", amount |-> <<>>, receiptPhoto |-> ""]

PurchaseItems == {"oil"}
PurchaseAmounts == {<<1, 2>>}
\* fileToBase64 resolves with a data URL, which is never ''
Receipts == {"data:r1", "data:r2"}

\* loadPurchases
LoadPurchases(t) == ReverseSortBy(WhereSite(t, pageSiteId), "createdAt")

purchaseOther == <<now, pageSiteId, nextProductionId, productionList,
                   editingProduction, productionForm, productionModalOpen>>

\* the 'Nouvel achat' button: setIsModalOpen(true)
openPurchaseModal ==
    /\ ~purchaseModalOpen
    /\ purchaseModalOpen' = TRUE
    /\ UNCHANGED <<purchases, nextPurchaseId, purchaseList, editingPurchase,
                   purchaseForm, receiptError>>
    /\ UNCHANGED <<purchaseOther, siteVars, reportVars, extraVars>>

\* onChange of the item and amount inputs
setPurchaseFormData(field, value) ==
    /\ purchaseModalOpen
    /\ purchaseForm[field] # value
    /\ purchaseForm' = [purchaseForm EXCEPT ![field] = value]
    /\ UNCHANGED <<purchases, nextPurchaseId, purchaseList, editingPurchase,
                   receiptError, purchaseModalOpen>>
    /\ UNCHANGED <<purchaseOther, siteVars, reportVars, extraVars>>

\* handleReceiptUpload with a file chosen
handleReceiptUpload(base64) ==
    /\ purchaseModalOpen
    /\ purchaseForm' = [purchaseForm EXCEPT !.receiptPhoto = base64]
    /\ receiptError' = FALSE
    /\ UNCHANGED <<purchases, nextPurchaseId, purchaseList, editingPurchase,
                   purchaseModalOpen>>
    /\ UNCHANGED <<purchaseOther, siteVars, reportVars, extraVars>>

\* editingPurchase?.receiptPhoto, '' when nothing is edited
EditedReceipt(editing) == IF editing = <<>> THEN "" ELSE editing[1].receiptPhoto

\* (mutant) the form is not checked for a receipt
ReceiptNeverMissing(form, editing) == FALSE

\* !formData.receiptPhoto && !editingPurchase?.receiptPhoto
ReceiptMissing(form, editing) ==
    form.receiptPhoto = "" /\ EditedReceipt(editing) = ""

\* (mutant) the receipt is taken from the form alone
SubmittedReceiptOfForm(form, editing) == form.receiptPhoto

\* formData.receiptPhoto || editingPurchase?.receiptPhoto || ''
SubmittedReceipt(form, editing) ==
    IF form.receiptPhoto # "" THEN form.receiptPhoto ELSE EditedReceipt(editing)

\* closeModal
closeModal ==
    /\ purchaseModalOpen' = FALSE
    /\ editingPurchase' = <<>>
    /\ receiptError' = FALSE
    /\ purchaseForm' = EmptyPurchaseForm

\* the 'Annuler' button and the modal's onClose
closePurchaseModal ==
    /\ purchaseModalOpen
    /\ closeModal
    /\ UNCHANGED <<purchases, nextPurchaseId, purchaseList>>
    /\ UNCHANGED <<purchaseOther, siteVars, reportVars, extraVars>>

\* A reading of the clock is a moment one minute after the reading before;
\* reading 0 is 2024-01-30T23:59Z.  The minutes since 2024-01-30T00:00Z:
MinutesAt(t) == 23 * 60 + 59 + t

\* formatDate(date): date.toISOString().split('T')[0], the day in UTC
formatDate(t) == <<2024, 1, 30 + MinutesAt(t) \div (24 * 60)>>

\* formatTime(date): date.toTimeString().split(' ')[0].slice(0, 5), the hour
\* and minute in the zone of the browser, here UTC+1
formatTime(t) ==
    LET local == (MinutesAt(t) + 60) % (24 * 60)
    IN <<local \div 60, local % 60>>

\* purchaseData, had an edit kept the date and time of the purchase
PurchaseDataKeepsDate(form, editing, at, updatedAt) ==
    [siteId |-> pageSiteId,
     item |-> form.item,
     amount |-> Number(form.amount),
     receiptPhoto |-> SubmittedReceipt(form, editing),
     purchaseDate |-> IF editing # <<>> THEN editing[1].purchaseDate
                      ELSE formatDate(at),
     purchaseTime |-> IF editing # <<>> THEN editing[1].purchaseTime
                      ELSE formatTime(at),
     updatedAt |-> updatedAt]

\* purchaseData of handleSubmit: `at` is what new Date() read, updatedAt what
\* getTimestamp() read after it
PurchaseData(form, editing, at, updatedAt) ==
    [siteId |-> pageSiteId,
     item |-> form.item,
     amount |-> Number(form.amount),
     receiptPhoto |-> SubmittedReceipt(form, editing),
     purchaseDate |-> formatDate(at),
     purchaseTime |-> formatTime(at),
     updatedAt |-> updatedAt]

\* handleSubmit of the Purchases page
handleSubmitPurchase ==
    /\ purchaseModalOpen
    /\ IF ReceiptMissing(purchaseForm, editingPurchase)
       THEN /\ receiptError' = TRUE
            /\ UNCHANGED <<purchases, nextPurchaseId, purchaseList,
                           editingPurchase, purchaseForm, purchaseModalOpen, now>>
       ELSE /\ \E at \in Readings(now) : \E updatedAt \in Readings(at) :
               \E createdAt \in Readings(updatedAt) :
                 LET purchaseData ==
                         PurchaseData(purchaseForm, editingPurchase, at, updatedAt)
                 IN IF editingPurchase # <<>>
                    THEN /\ purchases' = UpdateRow(purchases, editingPurchase[1].id, purchaseData)
                         /\ nextPurchaseId' = nextPurchaseId
                         /\ now' = updatedAt
                    ELSE /\ nextPurchaseId <= MaxPurchases
                         /\ purchases' = AddRow(purchases, nextPurchaseId,
                                [f \in DOMAIN purchaseData \cup {"createdAt"} |->
                                    IF f = "createdAt" THEN createdAt ELSE purchaseData[f]])
                         /\ nextPurchaseId' = nextPurchaseId + 1
                         /\ now' = createdAt
            /\ purchaseList' = LoadPurchases(purchases')
            /\ closeModal
    /\ UNCHANGED <<pageSiteId, nextProductionId, productionList,
                   editingProduction, productionForm, productionModalOpen>>
    /\ UNCHANGED <<siteVars, reportVars, extraVars>>

\* handleEdit of the Purchases page, on the i-th purchase listed
handleEditPurchase(i) ==
    /\ ~purchaseModalOpen
    /\ i \in 1..Len(purchaseList)
    /\ editingPurchase' = <<purchaseList[i]>>
    /\ purchaseForm' = [item |-> purchaseList[i].item,
                        amount |-> String(purchaseList[i].amount),
                        receiptPhoto |-> ""]
    /\ purchaseModalOpen' = TRUE
    /\ UNCHANGED <<purchases, nextPurchaseId, purchaseList, receiptError>>
    /\ UNCHANGED <<purchaseOther, siteVars, reportVars, extraVars>>

\* handleDelete of the Purchases page, confirmed, on the i-th purchase listed
handleDeletePurchase(i) ==
    /\ ~purchaseModalOpen
    /\ i \in 1..Len(purchaseList)
    /\ purchases' = DeleteRow(purchases, purchaseList[i].id)
    /\ purchaseList' = LoadPurchases(purchases')
    /\ UNCHANGED <<nextPurchaseId, editingPurchase, purchaseForm, receiptError,
                   purchaseModalOpen>>
    /\ UNCHANGED <<purchaseOther, siteVars, reportVars, extraVars>>

\* --------------------------------------------------------- ProductionPage
\* Each handler runs to its end before the next one starts.
\* formatDate(), the day the page is opened
EmptyProductionForm ==
    [date |-> ReportToday, quantityGrams |-> <<>>, team |-> "Equipe A",
     shift |-> "morning", notes |-> ""]

\* what the user types or picks in the form
ProductionInputs ==
    [date |-> {<<2024, 1, 1>>},
     quantityGrams |-> {<<1, 2>>},
     team |-> {"Equipe B"},
     shift |-> {},
     notes |-> {}]

\* loadProductions
LoadProductions(t) == ReverseSortBy(WhereSite(t, pageSiteId), "date")

productionOther == <<now, pageSiteId, purchases, nextPurchaseId, purchaseList,
                     editingPurchase, purchaseForm, receiptError,
                     purchaseModalOpen>>

productionReportVars == <<workers, inventory, dateRange, reportData,
                          inventoryList, pctArgs, pctResult>>

\* the 'Nouvelle production' button: setIsModalOpen(true)
openProductionModal ==
    /\ ~productionModalOpen
    /\ productionModalOpen' = TRUE
    /\ UNCHANGED <<productions, nextProductionId, productionList,
                   editingProduction, productionForm>>
    /\ UNCHANGED <<productionOther, siteVars, productionReportVars, extraVars>>

\* onChange of the inputs of the form
setProductionFormData(field, value) ==
    /\ productionModalOpen
    /\ productionForm[field] # value
    /\ productionForm' = [productionForm EXCEPT ![field] = value]
    /\ UNCHANGED <<productions, nextProductionId, productionList,
                   editingProduction, productionModalOpen>>
    /\ UNCHANGED <<productionOther, siteVars, productionReportVars, extraVars>>

\* closeModal of the Production page
closeModalProduction ==
    /\ productionModalOpen' = FALSE
    /\ editingProduction' = <<>>
    /\ productionForm' = EmptyProductionForm

\* the 'Annuler' button and the modal's onClose
closeProductionModal ==
    /\ productionModalOpen
    /\ closeModalProduction
    /\ UNCHANGED <<productions, nextProductionId, productionList>>
    /\ UNCHANGED <<productionOther, siteVars, productionReportVars, extraVars>>

\* handleSubmit of the Production page
handleSubmitProduction ==
    /\ productionModalOpen
    /\ \E updatedAt \in Readings(now) : \E createdAt \in Readings(updatedAt) :
          LET productionData ==
                  [siteId |-> pageSiteId,
                   date |-> productionForm.date,
                   quantityGrams |-> Number(productionForm.quantityGrams),
                   team |-> productionForm.team,
                   shift |-> productionForm.shift,
                   notes |-> productionForm.notes,
                   updatedAt |-> updatedAt]
          IN IF editingProduction # <<>>
             THEN /\ productions' = UpdateRow(productions, editingProduction[1].id,
                                                productionData)
                  /\ nextProductionId' = nextProductionId
                  /\ now' = updatedAt
             ELSE /\ nextProductionId <= MaxProductionRows
                  /\ productions' = AddRow(productions, nextProductionId,
                         [f \in DOMAIN productionData \cup {"createdAt"} |->
                             IF f = "createdAt" THEN createdAt ELSE productionData[f]])
                  /\ nextProductionId' = nextProductionId + 1
                  /\ now' = createdAt
    /\ productionList' = LoadProductions(productions')
    /\ closeModalProduction
    /\ UNCHANGED <<pageSiteId, purchases, nextPurchaseId, purchaseList,
                   editingPurchase, purchaseForm, receiptError, purchaseModalOpen>>
    /\ UNCHANGED <<siteVars, productionReportVars, extraVars>>

\* handleEdit of the Production page, on the i-th production listed
handleEditProduction(i) ==
    /\ ~productionModalOpen
    /\ i \in 1..Len(productionList)
    /\ editingProduction' = <<productionList[i]>>
    /\ productionForm' = [date |-> productionList[i].date,
                          quantityGrams |-> String(productionList[i].quantityGrams),
                          team |-> productionList[i].team,
                          shift |-> productionList[i].shift,
                          notes |-> productionList[i].notes]
    /\ productionModalOpen' = TRUE
    /\ UNCHANGED <<productions, nextProductionId, productionList>>
    /\ UNCHANGED <<productionOther, siteVars, productionReportVars, extraVars>>

\* handleDelete of the Production page, confirmed, on the i-th one listed
handleDeleteProduction(i) ==
    /\ ~productionModalOpen
    /\ i \in 1..Len(productionList)
    /\ productions' = DeleteRow(productions, productionList[i].id)
    /\ productionList' = LoadProductions(productions')
    /\ UNCHANGED <<nextProductionId, editingProduction, productionForm,
                   productionModalOpen>>
    /\ UNCHANGED <<productionOther, siteVars, productionReportVars, extraVars>>

\* ---------------------------------------------------------- InventoryPage
\* The columns of an inventory item that the handlers compute: name stands
\* for the text fields the form copies through.  handleDelete is followed
\* across its await, so that the list can be used before it is reloaded.
EmptyInventoryForm == [name |-> <<>>, quantity |-> <<>>, minQuantity |-> <<>>]

InventoryInputs ==
    [name |-> {<<70>>, <<67>>}, quantity |-> {<<5>>}, minQuantity |-> {<<5>>}]

\* the page is rendered and mounted for the site pageSiteId
InventoryShown == Rendered /\ currentPage = "inventory" /\ pageSiteId # 0

pageRest == <<pageSiteId, purchases, nextPurchaseId, purchaseList,
              editingPurchase, purchaseForm, receiptError, purchaseModalOpen,
              nextProductionId, productionList, editingProduction,
              productionForm, productionModalOpen>>

inventoryOther == <<siteVars, productions, workers, dateRange, reportData,
                    pctArgs, pctResult, pageRest, authVars, settingsVars,
                    workerList, dailyVars, laterVars>>

\* the page is mounted with siteId = activeSiteId and its effect loads the
\* list
mountInventoryPage ==
    /\ Rendered /\ currentPage = "inventory"
    /\ pageSiteId = 0
    /\ pageSiteId' = activeSiteId
    /\ inventoryList' = LoadInventory(inventory, activeSiteId)
    /\ UNCHANGED <<siteVars, productions, workers, inventory, dateRange,
                   reportData, pctArgs, pctResult, now, purchases,
                   nextPurchaseId, purchaseList, editingPurchase, purchaseForm,
                   receiptError, purchaseModalOpen, nextProductionId,
                   productionList, editingProduction, productionForm,
                   productionModalOpen, extraVars>>

\* the 'Nouvel article' button: setIsModalOpen(true)
openInventoryModal ==
    /\ InventoryShown
    /\ ~inventoryModalOpen
    /\ inventoryModalOpen' = TRUE
    /\ UNCHANGED <<inventory, inventoryList, now, nextInventoryId, editingItem,
                   inventoryForm, inventoryReloads, inventoryOther>>

\* onChange of the inputs of the form
setInventoryFormData(field, value) ==
    /\ InventoryShown
    /\ inventoryModalOpen
    /\ inventoryForm[field] # value
    /\ inventoryForm' = [inventoryForm EXCEPT ![field] = value]
    /\ UNCHANGED <<inventory, inventoryList, now, nextInventoryId, editingItem,
                   inventoryModalOpen, inventoryReloads, inventoryOther>>

\* closeModal of the Inventory page
closeModalInventory ==
    /\ inventoryModalOpen' = FALSE
    /\ editingItem' = <<>>
    /\ inventoryForm' = EmptyInventoryForm

\* the 'Annuler' button and the modal's onClose
closeInventoryModal ==
    /\ InventoryShown
    /\ inventoryModalOpen
    /\ closeModalInventory
    /\ UNCHANGED <<inventory, inventoryList, now, nextInventoryId,
                   inventoryReloads, inventoryOther>>

\* handleSubmit of the Inventory page
handleSubmitInventory ==
    /\ InventoryShown
    /\ inventoryModalOpen
    /\ \E updatedAt \in Readings(now) : \E createdAt \in Readings(updatedAt) :
          LET itemData ==
                  [siteId |-> pageSiteId,
                   name |-> inventoryForm.name,
                   quantity |-> Number(inventoryForm.quantity),
                   minQuantity |-> Number(inventoryForm.minQuantity),
                   updatedAt |-> updatedAt]
          IN IF editingItem # <<>>
             THEN /\ inventory' = UpdateRow(inventory, editingItem[1].id, itemData)
                  /\ nextInventoryId' = nextInventoryId
                  /\ now' = updatedAt
             ELSE /\ nextInventoryId <= MaxInventoryRows
                  /\ inventory' = AddRow(inventory, nextInventoryId,
                         [f \in DOMAIN itemData \cup {"createdAt"} |->
                             IF f = "createdAt" THEN createdAt ELSE itemData[f]])
                  /\ nextInventoryId' = nextInventoryId + 1
                  /\ now' = createdAt
    /\ inventoryList' = LoadInventory(inventory', pageSiteId)
    /\ closeModalInventory
    /\ UNCHANGED <<inventoryReloads, inventoryOther>>

\* handleEdit of the Inventory page, on the i-th item listed
handleEditInventory(i) ==
    /\ InventoryShown
    /\ ~inventoryModalOpen
    /\ i \in 1..Len(inventoryList)
    /\ editingItem' = <<inventoryList[i]>>
    /\ inventoryForm' = [name |-> inventoryList[i].name,
                         quantity |-> String(inventoryList[i].quantity),
                         minQuantity |-> String(inventoryList[i].minQuantity)]
    /\ inventoryModalOpen' = TRUE
    /\ UNCHANGED <<inventory, inventoryList, now, nextInventoryId,
                   inventoryReloads, inventoryOther>>

\* handleDelete of the Inventory page, confirmed, on the i-th item listed,
\* up to its second await: the delete has been carried out
handleDeleteInventory(i) ==
    /\ InventoryShown
    /\ ~inventoryModalOpen
    /\ inventoryReloads < MaxPending
    /\ i \in 1..Len(inventoryList)
    /\ inventory' = DeleteRow(inventory, inventoryList[i].id)
    /\ inventoryReloads' = inventoryReloads + 1
    /\ UNCHANGED <<inventoryList, now, nextInventoryId, editingItem,
                   inventoryForm, inventoryModalOpen, inventoryOther>>

\* handleDelete from `await loadInventory()` on
deleteInventoryReload ==
    /\ InventoryShown
    /\ inventoryReloads > 0
    /\ inventoryReloads' = inventoryReloads - 1
    /\ inventoryList' = LoadInventory(inventory, pageSiteId)
    /\ UNCHANGED <<inventory, now, nextInventoryId, editingItem, inventoryForm,
                   inventoryModalOpen, inventoryOther>>

\* ------------------------------------------------------- DailyReportsPage
\* The columns of a daily report that the handlers compute: siteId, date
\* and photos (the text fields and the numbers are copied through).  Every
\* file reads to the same data URL.  handlePhotoUpload is followed across
\* its awaits, one entry of `uploads` per call: `photos` is the state the
\* call closed over, `files` the length of its FileList, `i` and
\* `newPhotos` its locals.
EmptyDailyForm == [date |-> ReportToday]

\* the limit in the loop of handlePhotoUpload
PhotoLimit == 6

Photo == "data:photo"

\* loadReports
LoadReports(t) == ReverseSortBy(WhereSite(t, pageSiteId), "date")

dailyOther == <<siteVars, reportVars, pageVars, authVars, settingsVars,
                inventoryPageVars, workerList, laterVars>>

\* the 'Nouveau rapport' button: setIsModalOpen(true)
openReportModal ==
    /\ ~reportModalOpen
    /\ reportModalOpen' = TRUE
    /\ UNCHANGED <<dailyReports, nextDailyReportId, reportList, editingReport,
                   dailyForm, photos, uploads, dailyOther>>

\* (mutant) the loop goes on while the limit is not exceeded
UploadGoesOnAtLimit(u) ==
    u.i < u.files /\ Len(u.photos) + Len(u.newPhotos) <= PhotoLimit

\* the condition of the loop: i < files.length && photos.length +
\* newPhotos.length < 6
UploadGoesOn(u) ==
    u.i < u.files /\ Len(u.photos) + Len(u.newPhotos) < PhotoLimit

\* handlePhotoUpload from the loop's condition on, for the call u in slot k
\* of uploads' (a new slot or the one it was in): the next file is read, or
\* setPhotos([...photos, ...newPhotos]) ends the call
UploadStep(u, k) ==
    IF UploadGoesOn(u)
    THEN /\ uploads' = [j \in 1..Max(k, Len(uploads)) |-> IF j = k THEN u ELSE uploads[j]]
         /\ photos' = photos
    ELSE /\ uploads' = [j \in 1..(Max(k, Len(uploads)) - 1) |->
                           IF j < k THEN uploads[j] ELSE uploads[j + 1]]
         /\ photos' = u.photos \o u.newPhotos

\* handlePhotoUpload with a FileList of `files` files, up to its first await;
\* the input is there while photos.length < 6
handlePhotoUpload(files) ==
    /\ reportModalOpen
    /\ Len(photos) < PhotoLimit
    /\ Len(uploads) < MaxUploads
    /\ UploadStep([photos |-> photos, files |-> files, i |-> 0, newPhotos |-> <<>>],
                  Len(uploads) + 1)
    /\ UNCHANGED <<dailyReports, nextDailyReportId, reportList, editingReport,
                   dailyForm, reportModalOpen, dailyOther>>

\* fileToBase64(files[i]) of the call in slot k resolves (read) or rejects,
\* and the call goes on to its next await or to its end
photoRead(k, read) ==
    /\ k \in 1..Len(uploads)
    /\ LET u == uploads[k]
       IN UploadStep([u EXCEPT !.i = u.i + 1,
                               !.newPhotos = IF read THEN Append(@, Photo) ELSE @],
                     k)
    /\ UNCHANGED <<dailyReports, nextDailyReportId, reportList, editingReport,
                   dailyForm, reportModalOpen, dailyOther>>

\* removePhoto(index)
removePhoto(index) ==
    /\ reportModalOpen
    /\ index \in 1..Len(photos)
    /\ photos' = [j \in 1..(Len(photos) - 1) |->
                     IF j < index THEN photos[j] ELSE photos[j + 1]]
    /\ UNCHANGED <<dailyReports, nextDailyReportId, reportList, editingReport,
                   dailyForm, reportModalOpen, uploads, dailyOther>>

\* closeModal of the Daily Reports page
closeModalDaily ==
    /\ reportModalOpen' = FALSE
    /\ editingReport' = <<>>
    /\ photos' = <<>>
    /\ dailyForm' = EmptyDailyForm

\* the 'Annuler' button and the modal's onClose
closeReportModal ==
    /\ reportModalOpen
    /\ closeModalDaily
    /\ UNCHANGED <<dailyReports, nextDailyReportId, reportList, uploads,
                   dailyOther>>

\* handleSubmit of the Daily Reports page
handleSubmitDaily ==
    /\ reportModalOpen
    /\ \E updatedAt \in Readings(now) : \E createdAt \in Readings(updatedAt) :
          LET reportRow == [siteId |-> pageSiteId, date |-> dailyForm.date,
                            photos |-> photos, updatedAt |-> updatedAt]
          IN IF editingReport # <<>>
             THEN /\ dailyReports' = UpdateRow(dailyReports, editingReport[1].id,
                                               reportRow)
                  /\ nextDailyReportId' = nextDailyReportId
                  /\ now' = updatedAt
             ELSE /\ nextDailyReportId <= MaxDailyReports
                  /\ dailyReports' = AddRow(dailyReports, nextDailyReportId,
                         [f \in DOMAIN reportRow \cup {"createdAt"} |->
                             IF f = "createdAt" THEN createdAt ELSE reportRow[f]])
                  /\ nextDailyReportId' = nextDailyReportId + 1
                  /\ now' = createdAt
    /\ reportList' = LoadReports(dailyReports')
    /\ closeModalDaily
    /\ UNCHANGED <<uploads, siteVars, reportVars, pageRest, authVars,
                   settingsVars, inventoryPageVars, workerList, laterVars>>

\* handleEdit of the Daily Reports page, on the i-th report listed
handleEditDaily(i) ==
    /\ ~reportModalOpen
    /\ i \in 1..Len(reportList)
    /\ editingReport' = <<reportList[i]>>
    /\ dailyForm' = [date |-> reportList[i].date]
    /\ photos' = reportList[i].photos
    /\ reportModalOpen' = TRUE
    /\ UNCHANGED <<dailyReports, nextDailyReportId, reportList, uploads,
                   dailyOther>>

\* handleDelete of the Daily Reports page, confirmed, on the i-th one listed
handleDeleteDaily(i) ==
    /\ ~reportModalOpen
    /\ i \in 1..Len(reportList)
    /\ dailyReports' = DeleteRow(dailyReports, reportList[i].id)
    /\ reportList' = LoadReports(dailyReports')
    /\ UNCHANGED <<nextDailyReportId, editingReport, dailyForm, photos,
                   reportModalOpen, uploads, dailyOther>>

\* -------------------------------------------------------------- the lists
\* The effect `useEffect(() => { load...(); }, [siteId])` of each page with
\* a list, for the page's siteId prop.
loadProductions ==
    /\ productionList' = LoadProductions(productions)
    /\ productionList' # productionList
    /\ UNCHANGED <<productions, nextProductionId, editingProduction,
                   productionForm, productionModalOpen>>
    /\ UNCHANGED <<productionOther, siteVars, productionReportVars, extraVars>>

loadPurchases ==
    /\ purchaseList' = LoadPurchases(purchases)
    /\ purchaseList' # purchaseList
    /\ UNCHANGED <<purchases, nextPurchaseId, editingPurchase, purchaseForm,
                   receiptError, purchaseModalOpen>>
    /\ UNCHANGED <<purchaseOther, siteVars, reportVars, extraVars>>

\* db.workers.where('siteId').equals(siteId).sortBy('lastName')
LoadWorkers(t, siteId) == SortBy(t, SiteKeys(t, siteId), "lastName")

loadWorkers ==
    /\ workerList' = LoadWorkers(workers, pageSiteId)
    /\ workerList' # workerList
    /\ UNCHANGED <<siteVars, reportVars, pageVars, authVars, settingsVars,
                   inventoryPageVars, dailyVars, laterVars>>

loadReports ==
    /\ reportList' = LoadReports(dailyReports)
    /\ reportList' # reportList
    /\ UNCHANGED <<dailyReports, nextDailyReportId, editingReport, dailyForm,
                   photos, reportModalOpen, uploads>>
    /\ UNCHANGED <<siteVars, reportVars, pageVars, authVars, settingsVars,
                   inventoryPageVars, workerList, laterVars>>

\* ------------------------------------------------------------ WorkersPage
\* The columns of a worker that the handlers compute: lastName stands for
\* the text fields the form copies through.  Each handler runs to its end
\* before the next one starts.
EmptyWorkerForm == [lastName |-> <<>>, status |-> "active"]

\* what the user types as the last name: 'M', 'K'
WorkerNames == {<<77>>, <<75>>}

workerOther == <<siteVars, productions, inventory, dateRange, reportData,
                 inventoryList, pctArgs, pctResult, pageRest, authVars,
                 settingsVars, inventoryPageVars, dailyVars, errorVars>>

\* the 'Nouveau travailleur' button: setIsModalOpen(true)
openWorkerModal ==
    /\ ~workerModalOpen
    /\ workerModalOpen' = TRUE
    /\ UNCHANGED <<workers, workerList, now, nextWorkerId, editingWorker,
                   workerForm, workerOther>>

\* onChange of the last name input
setWorkerFormData(value) ==
    /\ workerModalOpen
    /\ workerForm.lastName # value
    /\ workerForm' = [workerForm EXCEPT !.lastName = value]
    /\ UNCHANGED <<workers, workerList, now, nextWorkerId, editingWorker,
                   workerModalOpen, workerOther>>

\* closeModal of the Workers page
closeModalWorker ==
    /\ workerModalOpen' = FALSE
    /\ editingWorker' = <<>>
    /\ workerForm' = EmptyWorkerForm

\* the 'Annuler' button and the modal's onClose
closeWorkerModal ==
    /\ workerModalOpen
    /\ closeModalWorker
    /\ UNCHANGED <<workers, workerList, now, nextWorkerId, workerOther>>

\* handleSubmit of the Workers page
handleSubmitWorker ==
    /\ workerModalOpen
    /\ \E updatedAt \in Readings(now) : \E createdAt \in Readings(updatedAt) :
          LET workerData ==
                  [siteId |-> pageSiteId,
                   lastName |-> workerForm.lastName,
                   status |-> workerForm.status,
                   updatedAt |-> updatedAt]
          IN IF editingWorker # <<>>
             THEN /\ workers' = UpdateRow(workers, editingWorker[1].id, workerData)
                  /\ nextWorkerId' = nextWorkerId
                  /\ now' = updatedAt
             ELSE /\ nextWorkerId <= MaxWorkerRows
                  /\ workers' = AddRow(workers, nextWorkerId,
                         [f \in DOMAIN workerData \cup {"createdAt"} |->
                             IF f = "createdAt" THEN createdAt ELSE workerData[f]])
                  /\ nextWorkerId' = nextWorkerId + 1
                  /\ now' = createdAt
    /\ workerList' = LoadWorkers(workers', pageSiteId)
    /\ closeModalWorker
    /\ UNCHANGED workerOther

\* handleEdit of the Workers page, on the i-th worker listed
handleEditWorker(i) ==
    /\ ~workerModalOpen
    /\ i \in 1..Len(workerList)
    /\ editingWorker' = <<workerList[i]>>
    /\ workerForm' = [lastName |-> workerList[i].lastName,
                      status |-> workerList[i].status]
    /\ workerModalOpen' = TRUE
    /\ UNCHANGED <<workers, workerList, now, nextWorkerId, workerOther>>

\* handleDelete of the Workers page, confirmed, on the i-th worker listed
handleDeleteWorker(i) ==
    /\ ~workerModalOpen
    /\ i \in 1..Len(workerList)
    /\ workers' = DeleteRow(workers, workerList[i].id)
    /\ workerList' = LoadWorkers(workers', pageSiteId)
    /\ UNCHANGED <<now, nextWorkerId, editingWorker, workerForm,
                   workerModalOpen, workerOther>>

\* ----------------------------------------------------------- AuthProvider
UserRoles == {"admin", "supervisor", "worker"}

\* roleHierarchy
roleHierarchy == [admin |-> 3, supervisor |-> 2, worker |-> 1]

\* (mutant) the required level has to be exceeded
canAccessAbove(mode, requiredRole) == roleHierarchy[mode] > roleHierarchy[requiredRole]

\* canAccess(requiredRole) in view-mode `mode`
canAccess(mode, requiredRole) == roleHierarchy[mode] >= roleHierarchy[requiredRole]

\* the flags of the context value
isAdmin(mode) == mode = "admin"
isSupervisor(mode) == mode = "supervisor" \/ mode = "admin"
isWorker(mode) == TRUE

\* The columns of a User that the handlers read or write: firstName stands
\* for the text fields of the profile form (lastName, email, phone).
\* JSON.stringify and JSON.parse give back the strings and the integers of
\* such an object as they were, so the entry of localStorage is the record.
defaultUser(siteId, createdAt) ==
    [id |-> UserId, firstName |-> "Administrateur", role |-> "admin",
     siteId |-> siteId, createdAt |-> createdAt]

\* db.sites.toCollection().first(), then site?.id || 1
FirstSiteIdOr1(s) == IF DOMAIN s = {} THEN 1 ELSE Min(DOMAIN s)

authOther == <<renderArgs, renderResult>>

\* (mutant) loadUser does not look for a saved profile
loadUserAnew ==
    /\ loadUserPc = "mount"
    /\ loadUserPc' = "await"
    /\ UNCHANGED <<user, viewMode, savedUser, authOther>>
    /\ UNCHANGED <<siteVars, reportVars, pageVars, settingsVars, moreVars>>

\* loadUser up to its await: a saved profile is taken as it is found, and
\* otherwise db.sites.toCollection().first() is issued
loadUserMount ==
    /\ loadUserPc = "mount"
    /\ IF savedUser # <<>>
       THEN /\ user' = savedUser
            /\ viewMode' = savedUser[1].role
            /\ loadUserPc' = "done"
       ELSE /\ loadUserPc' = "await"
            /\ UNCHANGED <<user, viewMode>>
    /\ UNCHANGED <<savedUser, authOther>>
    /\ UNCHANGED <<siteVars, reportVars, pageVars, settingsVars, moreVars>>

\* loadUser after its await: the default admin is created and saved
loadUserDefault ==
    /\ loadUserPc = "await"
    /\ user' = <<defaultUser(FirstSiteIdOr1(sites), now)>>
    /\ viewMode' = "admin"
    /\ savedUser' = user'
    /\ loadUserPc' = "done"
    /\ UNCHANGED authOther
    /\ UNCHANGED <<siteVars, reportVars, pageVars, settingsVars, moreVars>>

\* ------------------------------------------------------------- renderPage
\* (mutant) the Settings page is open to supervisors, the other gates are gone
RenderPageNoGate(initialized, siteId, page, mode) ==
    IF ~initialized \/ siteId = 0 THEN "skeleton"
    ELSE CASE page = "dashboard" -> "Dashboard"
           [] page = "production" -> "ProductionPage"
           [] page = "workers" -> "WorkersPage"
           [] page = "inventory" -> "InventoryPage"
           [] page = "purchases" -> "PurchasesPage"
           [] page = "reports" -> "DailyReportsPage"
           [] page = "settings" ->
                 IF isSupervisor(mode) THEN "SettingsPage" ELSE "Dashboard"
           [] page = "profile" -> "ProfilePage"
           [] page = "attendance" -> "AttendancePage"
           [] OTHER -> "Dashboard"

\* what renderPage returns, from the state it reads
RenderPage(initialized, siteId, page, mode) ==
    IF ~initialized \/ siteId = 0 THEN "skeleton"
    ELSE CASE page = "dashboard" -> "Dashboard"
           [] page = "production" -> "ProductionPage"
           [] page = "workers" ->
                 IF isSupervisor(mode) THEN "WorkersPage" ELSE "Dashboard"
           [] page = "inventory" ->
                 IF isSupervisor(mode) THEN "InventoryPage" ELSE "Dashboard"
           [] page = "purchases" ->
                 IF isSupervisor(mode) THEN "PurchasesPage" ELSE "Dashboard"
           [] page = "reports" ->
                 IF isSupervisor(mode) THEN "DailyReportsPage" ELSE "Dashboard"
           [] page = "settings" ->
                 IF isAdmin(mode) THEN "SettingsPage" ELSE "Dashboard"
           [] page = "profile" -> "ProfilePage"
           [] page = "attendance" -> "AttendancePage"
           [] OTHER -> "Dashboard"

\* the page the App shows
Shown == RenderPage(isInitialized, activeSiteId, currentPage, viewMode)

\* a call of renderPage returns
callRenderPage ==
    /\ renderResult = <<>>
    /\ renderResult' = <<RenderPage(renderArgs.isInitialized, renderArgs.activeSiteId,
                                    renderArgs.currentPage, renderArgs.viewMode)>>
    /\ UNCHANGED <<user, viewMode, savedUser, loadUserPc, renderArgs>>
    /\ UNCHANGED <<siteVars, reportVars, pageVars, settingsVars, moreVars>>

\* ------------------------------------------------------------- navigation
\* getSidebarItems, getNavItems and the header's profile button
MenuPages(mode) ==
    {"dashboard", "attendance", "production", "profile"}
    \cup (IF isSupervisor(mode)
          THEN {"workers", "inventory", "reports", "purchases"} ELSE {})
    \cup (IF isAdmin(mode) THEN {"settings"} ELSE {})

\* the quick actions of the Dashboard
QuickActions(mode) ==
    {"attendance", "production"}
    \cup (IF isSupervisor(mode) THEN {"purchases", "reports"} ELSE {})

\* setCurrentPage(page) from an item the view-mode shows
setCurrentPage(page) ==
    /\ \/ page \in MenuPages(viewMode)
       \/ Shown = "Dashboard" /\ page \in QuickActions(viewMode)
    /\ handleNavigate(page)

\* ------------------------------------------------------------ ProfilePage
\* the page is shown and has a user to show
ProfileShown == Shown = "ProfilePage" /\ user # <<>>

FirstNames == {"Administrateur", "Jean"}

\* (mutant) the role switch also rewrites the role of the profile
setViewModeAndRole(mode) ==
    /\ ProfileShown /\ Ready
    /\ user[1].role = "admin"
    /\ viewMode' = mode
    /\ user' = <<[user[1] EXCEPT !.role = mode]>>
    /\ savedUser' = user'
    /\ UNCHANGED <<loadUserPc, authOther>>
    /\ UNCHANGED <<siteVars, reportVars, pageVars, settingsVars, moreVars>>

\* the buttons of the role switch, shown when user.role === 'admin'
setViewMode(mode) ==
    /\ ProfileShown /\ Ready
    /\ user[1].role = "admin"
    /\ viewMode' = mode
    /\ UNCHANGED <<user, savedUser, loadUserPc, authOther>>
    /\ UNCHANGED <<siteVars, reportVars, pageVars, settingsVars, moreVars>>

\* updateUser(updates), the function the AuthProvider hands to its
\* consumers: with a user loaded, { ...user, ...updates } is set and saved
updateUser(firstName) ==
    /\ IF user # <<>>
       THEN /\ user' = <<[user[1] EXCEPT !.firstName = firstName]>>
            /\ savedUser' = user'
       ELSE UNCHANGED <<user, savedUser>>
    /\ UNCHANGED <<viewMode, loadUserPc, authOther>>
    /\ UNCHANGED <<siteVars, reportVars, pageVars, settingsVars, moreVars>>

\* handleSaveProfile: updateUser(formData)
handleSaveProfile(firstName) ==
    /\ ProfileShown /\ Ready
    /\ updateUser(firstName)

\* ----------------------------------------------------------- the settings
ToggleKeys == {"showVsYesterday", "showVsLastWeek", "showWorkingDays",
               "showProductionComparison", "showPurchaseComparison"}

\* getSettings: db.settings.toCollection().first(), else the defaults
getSettings(t, reading) ==
    IF DOMAIN t = {} THEN DefaultSettings(reading) ELSE t[Min(DOMAIN t)]

\* updateSettings({ [key]: value }): the first row is updated if there is one
updateSettings(t, key, value, reading) ==
    IF DOMAIN t # {}
    THEN UpdateRow(t, Min(DOMAIN t),
                   [k \in {key, "updatedAt"} |->
                       IF k = "updatedAt" THEN reading ELSE value])
    ELSE t

settingsOther == <<reportVars, pageVars, authVars, moreVars>>

\* loadSettings, the effect of the Settings page when it is mounted
loadSettings ==
    /\ SettingsShown
    /\ pageSettings = <<>>
    /\ pageSettings' = <<getSettings(settings, now)>>
    /\ UNCHANGED <<settings, nextSettingsId, launches>>
    /\ UNCHANGED <<siteVars, settingsOther>>

\* handleToggle(key, value) from the checkbox of the key, which shows
\* settings[key] and so sends its negation
handleToggle(key) ==
    /\ SettingsShown /\ Ready
    /\ pageSettings # <<>>
    /\ LET value == ~pageSettings[1][key]
       IN /\ settings' = updateSettings(settings, key, value, now)
          /\ pageSettings' = <<[pageSettings[1] EXCEPT ![key] = value]>>
    /\ UNCHANGED <<nextSettingsId, launches>>
    /\ UNCHANGED <<siteVars, settingsOther>>

\* The tab is closed and the App opened again: the store and localStorage
\* stay, the state of the components is constructed anew and initApp runs.
\* A request that was issued has been carried out; a handler between two of
\* its awaits does not continue.
reload ==
    /\ launches < MaxLaunches
    /\ launches' = launches + 1
    /\ uiSites' = NoSites
    /\ activeSiteId' = 0
    /\ isInitialized' = FALSE
    /\ currentPage' = "dashboard"
    /\ todayRecords' = <<>>
    /\ isCheckedIn' = FALSE
    /\ fg' = Task("initApp", "seed", 0, NoSites)
    /\ bg' = <<>>
    /\ dateRange' = DefaultRange
    /\ reportData' = <<>>
    /\ inventoryList' = <<>>
    /\ pageSiteId' = 0
    /\ purchaseList' = <<>>
    /\ editingPurchase' = <<>>
    /\ purchaseForm' = EmptyPurchaseForm
    /\ receiptError' = FALSE
    /\ purchaseModalOpen' = FALSE
    /\ productionList' = <<>>
    /\ editingProduction' = <<>>
    /\ productionForm' = EmptyProductionForm
    /\ productionModalOpen' = FALSE
    /\ user' = <<>>
    /\ viewMode' = "admin"
    /\ loadUserPc' = "mount"
    /\ pageSettings' = <<>>
    /\ editingItem' = <<>>
    /\ inventoryForm' = EmptyInventoryForm
    /\ inventoryModalOpen' = FALSE
    /\ inventoryReloads' = 0
    /\ workerList' = <<>>
    /\ editingWorker' = <<>>
    /\ workerForm' = EmptyWorkerForm
    /\ workerModalOpen' = FALSE
    /\ reportList' = <<>>
    /\ editingReport' = <<>>
    /\ dailyForm' = EmptyDailyForm
    /\ photos' = <<>>
    /\ reportModalOpen' = FALSE
    /\ uploads' = <<>>
    /\ UNCHANGED <<sites, nextSiteId, rows, nextRowId, attendanceStore, overlap,
                   productions, workers, inventory, pctArgs, pctResult, now,
                   purchases, nextPurchaseId, nextProductionId, savedUser,
                   renderArgs, renderResult, settings, nextSettingsId,
                   nextInventoryId, dailyReports, nextDailyReportId, errorVars,
                   nextWorkerId>>

\* ------------------------------------------------- failing store requests
\* A request to the store can reject (the quota is exceeded, the database
\* is closed or blocked, the transaction aborts).  The await then throws
\* inside the handler: with a try around it the catch logs the error and
\* the handler returns, without one the handler's promise rejects, and as
\* every handler is called from an event or an effect nothing catches it.
MayFail == Len(uncaught) + Len(errorLog) < MaxFailures

\* the await throws in a handler without try
Escapes(handler) ==
    /\ uncaught' = Append(uncaught, handler)
    /\ errorLog' = errorLog

\* the await throws inside a try whose catch calls console.error
Logged(handler) ==
    /\ errorLog' = Append(errorLog, handler)
    /\ uncaught' = uncaught

\* what a failing request leaves alone besides the sites
failOther == <<reportVars, pageVars, authVars, settingsVars,
               inventoryPageVars, workerList, dailyVars, workerPageVars>>

\* loadSites: db.sites.toArray() rejects; there is no try in loadSites, in
\* initApp (which then never calls setIsInitialized) or in handleSiteChange
loadSitesFails(k) ==
    /\ MayFail
    /\ k \in Slots
    /\ TaskAt(k).op \in {"initApp", "loadSites", "siteChange"}
    /\ TaskAt(k).pc = "apply"
    /\ Escapes(TaskAt(k).op)
    /\ Continue(k, Idle, <<>>)
    /\ UNCHANGED <<sites, nextSiteId, rows, nextRowId, attendanceStore, uiSites,
                   activeSiteId, isInitialized, currentPage, todayRecords,
                   isCheckedIn, overlap>>
    /\ UNCHANGED failOther

\* handleSiteChange(id): modify({isActive: false}) rejects
handleSiteChangeFails(id) ==
    /\ MayFail
    /\ Ready
    /\ id \in DOMAIN uiSites
    /\ Escapes("siteChange")
    /\ UNCHANGED siteVars
    /\ UNCHANGED failOther

\* handleSetActiveSite(id): modify({isActive: false}) rejects
handleSetActiveSiteFails(id) ==
    /\ MayFail
    /\ Ready /\ SettingsShown
    /\ id \in DOMAIN uiSites /\ id # activeSiteId
    /\ Escapes("setActive")
    /\ UNCHANGED siteVars
    /\ UNCHANGED failOther

\* handleSetActiveSite after its first await: update(id, {isActive: true})
\* rejects, after every site was made inactive
setActiveUpdateFails ==
    /\ MayFail
    /\ fg.op = "setActive" /\ fg.pc = "update"
    /\ Escapes("setActive")
    /\ fg' = Idle
    /\ UNCHANGED <<sites, nextSiteId, rows, nextRowId, attendanceStore, uiSites,
                   activeSiteId, isInitialized, currentPage, todayRecords,
                   isCheckedIn, bg, overlap>>
    /\ UNCHANGED failOther

\* handleToggle(key, value): updateSettings rejects, setSettings is not
\* reached
handleToggleFails(key) ==
    /\ MayFail
    /\ SettingsShown /\ Ready
    /\ pageSettings # <<>>
    /\ key \in ToggleKeys
    /\ Escapes("handleToggle")
    /\ UNCHANGED siteVars
    /\ UNCHANGED failOther

\* handleSaveSite: db.sites.add or db.sites.update rejects inside the try;
\* neither onRefreshSites nor setIsModalOpen(false) is reached
handleSaveSiteFails ==
    /\ MayFail
    /\ Ready /\ SettingsShown
    /\ Logged("saveSite")
    /\ UNCHANGED siteVars
    /\ UNCHANGED failOther

\* handleDeleteSite(id), confirmed: db.sites.delete(id) rejects inside the
\* try
handleDeleteSiteFails(id) ==
    /\ MayFail
    /\ Ready /\ SettingsShown
    /\ id \in DOMAIN uiSites
    /\ MayDeleteSite(uiSites)
    /\ Logged("deleteSite")
    /\ UNCHANGED siteVars
    /\ UNCHANGED failOther

\* handleDeleteSite: one of the five where('siteId').equals(id).delete()
\* rejects inside the try; the deletes after it, onRefreshSites and
\* onSiteChange are not reached
deleteSiteCascadeFails ==
    /\ MayFail
    /\ fg.op = "deleteSite" /\ fg.pc \in Collections
    /\ Logged("deleteSite")
    /\ fg' = Idle
    /\ UNCHANGED <<sites, nextSiteId, rows, nextRowId, attendanceStore, uiSites,
                   activeSiteId, isInitialized, currentPage, todayRecords,
                   isCheckedIn, bg, overlap>>
    /\ UNCHANGED failOther

\* the record pages whose handleDelete awaits inside a try
DeleteHasTry == {"purchases", "dailyReports"}

\* handleDelete(id) of a record page, confirmed: db.<coll>.delete(id)
\* rejects
handleDeleteFails(coll) ==
    /\ MayFail
    /\ Ready /\ Rendered
    /\ currentPage = PageOf(coll)
    /\ \E x \in rows : x.coll = coll /\ x.siteId = activeSiteId
    /\ IF coll \in DeleteHasTry THEN Logged(coll) ELSE Escapes(coll)
    /\ UNCHANGED siteVars
    /\ UNCHANGED failOther

\* handleSubmit of a record page: db.<coll>.add or update rejects inside
\* the try; neither the reload of the list nor closeModal is reached
handleSubmitFails(coll) ==
    /\ MayFail
    /\ Ready /\ Rendered
    /\ currentPage = PageOf(coll)
    /\ Logged(coll)
    /\ UNCHANGED siteVars
    /\ UNCHANGED failOther

\* ------------------------------------------------------ the specifications
SiteInit(mode) ==
    /\ sites = NoSites
    /\ nextSiteId = 1
    /\ rows = {}
    /\ nextRowId = [c \in Collections |-> 1]
    /\ attendanceStore = [k \in {} |-> <<>>]
    /\ uiSites = NoSites
    /\ activeSiteId = 0
    /\ isInitialized = FALSE
    /\ currentPage = "dashboard"
    /\ todayRecords = <<>>
    /\ isCheckedIn = FALSE
    /\ fg = Task("initApp", "seed", 0, NoSites)
    /\ bg = <<>>
    /\ overlap = mode

\* the site specifications do not open the report or the inventory page
ReportIdle ==
    /\ productions = <<>>
    /\ workers = <<>>
    /\ inventory = <<>>
    /\ dateRange = DefaultRange
    /\ reportData = <<>>
    /\ inventoryList = <<>>
    /\ pctArgs = <<0, 0>>
    /\ pctResult = <<>>

\* the Purchases page before it is used: seedDatabase adds no purchases
PurchasesIdle ==
    /\ purchases = <<>>
    /\ nextPurchaseId = 1
    /\ purchaseList = <<>>
    /\ editingPurchase = <<>>
    /\ purchaseForm = EmptyPurchaseForm
    /\ receiptError = FALSE
    /\ purchaseModalOpen = FALSE

\* the Production page before it is used
ProductionIdle ==
    /\ nextProductionId = 1
    /\ productionList = <<>>
    /\ editingProduction = <<>>
    /\ productionForm = EmptyProductionForm
    /\ productionModalOpen = FALSE

\* the site and the report specifications do not open the two pages
PagesIdle ==
    /\ now = 0
    /\ pageSiteId = 0
    /\ PurchasesIdle
    /\ ProductionIdle

\* no call of renderPage is followed
RenderIdle ==
    /\ renderArgs = [isInitialized |-> FALSE, activeSiteId |-> 0,
                     currentPage |-> "dashboard", viewMode |-> "admin"]
    /\ renderResult = <<>>

\* the AuthProvider as it is constructed, on a device without a saved
\* profile, and loadUser not followed
AuthIdle ==
    /\ user = <<>>
    /\ viewMode = "admin"
    /\ savedUser = <<>>
    /\ loadUserPc = "mount"
    /\ RenderIdle

\* the store without settings, the Settings page not shown
SettingsIdle ==
    /\ settings = <<>>
    /\ nextSettingsId = 1
    /\ pageSettings = <<>>
    /\ launches = 0

\* the Inventory page before it is used
InventoryIdle ==
    /\ nextInventoryId = 1
    /\ editingItem = <<>>
    /\ inventoryForm = EmptyInventoryForm
    /\ inventoryModalOpen = FALSE
    /\ inventoryReloads = 0

\* the Daily Reports page before it is used: seedDatabase adds no report
DailyIdle ==
    /\ dailyReports = <<>>
    /\ nextDailyReportId = 1
    /\ reportList = <<>>
    /\ editingReport = <<>>
    /\ dailyForm = EmptyDailyForm
    /\ photos = <<>>
    /\ reportModalOpen = FALSE
    /\ uploads = <<>>

\* no store request has failed
ErrorIdle == uncaught = <<>> /\ errorLog = <<>>

\* the Workers page before it is used
WorkersIdle ==
    /\ workerList = <<>>
    /\ nextWorkerId = 1
    /\ editingWorker = <<>>
    /\ workerForm = EmptyWorkerForm
    /\ workerModalOpen = FALSE

MoreIdle == InventoryIdle /\ WorkersIdle /\ DailyIdle /\ ErrorIdle

ExtraIdle == AuthIdle /\ SettingsIdle /\ MoreIdle

SiteNext ==
    \/ initAppSeed
    \/ seedAddSite
    \/ seedAddSettings
    \/ seedAddRows
    \/ initAppDone
    \/ \E k \in Slots : loadSitesApply(k)
    \/ \E id \in 1..MaxSites : handleSiteChange(id)
    \/ \E k \in Slots : siteChangeUpdate(k)
    \/ \E k \in Slots : siteChangeLoad(k)
    \/ \E id \in 1..MaxSites : handleSetActiveSite(id)
    \/ setActiveUpdate
    \/ setActiveSpawn
    \/ handleSaveSiteAdd
    \/ \E id \in 1..MaxSites : handleSaveSiteEdit(id)
    \/ saveSiteRefresh
    \/ \E id \in 1..MaxSites : handleDeleteSite(id)
    \/ deleteSiteCascade
    \/ deleteSiteFinish
    \/ \E page \in Pages : handleNavigate(page)

\* The sites and the App shell.  Every user action waits for all pending
\* work of the one before.
Init == SiteInit(FALSE) /\ ReportIdle /\ PagesIdle /\ ExtraIdle
Next == SiteNext
Spec == Init /\ [][Next]_vars

\* The same, but the user may act while refreshes and site switches that
\* were called without await are still pending.
InitOverlap == SiteInit(TRUE) /\ ReportIdle /\ PagesIdle /\ ExtraIdle
SpecOverlap == InitOverlap /\ [][Next]_vars

\* The sites together with the records the pages add for the active site.
NextCascade ==
    \/ SiteNext
    \/ \E coll \in Collections : handleSubmitAdd(coll)
    \/ handleCheckIn
    \/ handleCheckOut

SpecCascade == Init /\ [][NextCascade]_vars


\* The sites that are added and deleted and the records the pages add,
\* where the user may act while refreshes and switches are pending.
NextOrphans ==
    \/ initAppSeed
    \/ seedAddSite
    \/ seedAddSettings
    \/ seedAddRows
    \/ initAppDone
    \/ \E k \in Slots : loadSitesApply(k)
    \/ \E k \in Slots : siteChangeUpdate(k)
    \/ \E k \in Slots : siteChangeLoad(k)
    \/ handleSaveSiteAdd
    \/ saveSiteRefresh
    \/ \E id \in 1..MaxSites : handleDeleteSite(id)
    \/ deleteSiteCascade
    \/ deleteSiteFinish
    \/ \E page \in Pages : handleNavigate(page)
    \/ \E coll \in Collections : handleSubmitAdd(coll)

SpecOrphans == InitOverlap /\ [][NextOrphans]_vars

\* The attendance page of an App with two sites: the user checks in and out,
\* goes to other pages and comes back, and opens the App again.
InitPresence ==
    /\ sites = [i \in {1, 2} |-> [isActive |-> i = 1]]
    /\ nextSiteId = 3
    /\ rows = {}
    /\ nextRowId = [c \in Collections |-> SeedCount(c) + 1]
    /\ attendanceStore = [k \in {} |-> <<>>]
    /\ uiSites = sites
    /\ activeSiteId = 1
    /\ isInitialized = TRUE
    /\ currentPage = "attendance"
    /\ todayRecords = <<>>
    /\ isCheckedIn = FALSE
    /\ fg = Idle
    /\ bg = <<>>
    /\ overlap = FALSE
    /\ ReportIdle /\ PagesIdle /\ ExtraIdle

NextPresence ==
    \/ handleCheckInUpTo(MaxAttendance)
    \/ handleCheckOut
    \/ \E page \in Pages : handleNavigate(page)
    \/ reload
    \/ initAppSeed
    \/ initAppDone

SpecPresence == InitPresence /\ [][NextPresence]_vars

\* The same, and the user switches the active site from the site menu.
NextAttendance ==
    \/ NextPresence
    \/ \E id \in 1..MaxSites : handleSiteChange(id)
    \/ \E k \in Slots : siteChangeUpdate(k)
    \/ \E k \in Slots : siteChangeLoad(k)
    \/ \E k \in Slots : loadSitesApply(k)

SpecAttendance == InitPresence /\ [][NextAttendance]_vars

\* ------------------------------------------------- the report, its inputs
ProductionDates == {<<2024, 1, 1>>, <<2024, 1, 2>>, <<2024, 1, 3>>}
RangeDates == ProductionDates \cup {ReportToday}
SiteIdsDrawn == {1, 2}
Quantities == {1, 300, 900}
Teams == {"Equipe A", "Equipe B"}
ShiftsDrawn == {"morning", "night"}

ProductionRows ==
    [siteId : SiteIdsDrawn, date : ProductionDates, quantityGrams : Quantities,
     team : Teams, shift : ShiftsDrawn]

\* names are written by the code unit of their initial
InventoryNames == {<<67>>, <<70>>}

InventoryRows ==
    [siteId : SiteIdsDrawn, name : InventoryNames, quantity : {4, 5, 6},
     minQuantity : {0, 5}]

\* the tables with at most n rows drawn from R, keyed 1..n
TablesOf(R, n) == UNION {[1..k -> R] : k \in 0..n}

\* what seedDatabase puts in workers and inventory
SeedWorkers == [i \in 1..3 |-> [siteId |-> 1, status |-> "active"]]
SeedInventory ==
    <<[siteId |-> 1, name |-> <<70>>, quantity |-> 3, minQuantity |-> 2],
      [siteId |-> 1, name |-> <<67>>, quantity |-> 25, minQuantity |-> 20]>>

\* The report page over a store of productions drawn from the rows above.
InitReport ==
    /\ SiteInit(FALSE)
    /\ productions \in TablesOf(ProductionRows, MaxProductions)
    /\ workers = SeedWorkers
    /\ inventory = SeedInventory
    /\ dateRange = DefaultRange
    /\ reportData = <<>>
    /\ inventoryList = <<>>
    /\ pctArgs = <<0, 0>>
    /\ pctResult = <<>>
    /\ PagesIdle
    /\ ExtraIdle

NextReport ==
    \/ generateReport
    \/ \E start \in RangeDates, end \in RangeDates : setDateRange(start, end)

SpecReport == InitReport /\ [][NextReport]_vars

\* The report page and the inventory page over a store of inventory rows.
InitStock ==
    /\ SiteInit(FALSE)
    /\ productions = <<>>
    /\ workers = SeedWorkers
    /\ inventory \in TablesOf(InventoryRows, MaxItems)
    /\ dateRange = DefaultRange
    /\ reportData = <<>>
    /\ inventoryList = <<>>
    /\ pctArgs = <<0, 0>>
    /\ pctResult = <<>>
    /\ PagesIdle
    /\ ExtraIdle

NextStock ==
    \/ generateReport
    \/ \E start \in RangeDates, end \in RangeDates : setDateRange(start, end)
    \/ \E siteId \in SiteIdsDrawn : loadInventory(siteId)

SpecStock == InitStock /\ [][NextStock]_vars

\* The report page of an App with two sites, either of them active, over
\* stores that hold productions, workers and inventory items of both.
SiteProductionRows ==
    [siteId : SiteIdsDrawn, date : {<<2024, 1, 1>>, <<2024, 1, 3>>},
     quantityGrams : {300}, team : Teams, shift : ShiftsDrawn]
SiteWorkerRows == [siteId : SiteIdsDrawn, status : {"active", "inactive"}]
SiteInventoryRows ==
    [siteId : SiteIdsDrawn, name : {<<67>>}, quantity : {4, 6}, minQuantity : {5}]
NarrowStarts == {<<2024, 1, 1>>, <<2024, 1, 2>>}

InitAllSites ==
    /\ activeSiteId \in SiteIdsDrawn
    /\ sites = [i \in SiteIdsDrawn |-> [isActive |-> i = activeSiteId]]
    /\ nextSiteId = 3
    /\ rows = {}
    /\ nextRowId = [c \in Collections |-> SeedCount(c) + 1]
    /\ attendanceStore = [k \in {} |-> <<>>]
    /\ uiSites = sites
    /\ isInitialized = TRUE
    /\ currentPage = "dashboard"
    /\ todayRecords = <<>>
    /\ isCheckedIn = FALSE
    /\ fg = Idle
    /\ bg = <<>>
    /\ overlap = FALSE
    /\ productions \in TablesOf(SiteProductionRows, MaxProductions)
    /\ workers \in TablesOf(SiteWorkerRows, MaxStaff)
    /\ inventory \in TablesOf(SiteInventoryRows, MaxItems)
    /\ dateRange = DefaultRange
    /\ reportData = <<>>
    /\ inventoryList = <<>>
    /\ pctArgs = <<0, 0>>
    /\ pctResult = <<>>
    /\ PagesIdle
    /\ ExtraIdle

NextAllSites ==
    \/ generateReport
    \/ \E start \in NarrowStarts : setDateRange(start, ReportToday)

SpecAllSites == InitAllSites /\ [][NextAllSites]_vars

\* getPercentage on every pair of arguments up to MaxValue.
InitPercentage ==
    /\ SiteInit(FALSE)
    /\ productions = <<>>
    /\ workers = <<>>
    /\ inventory = <<>>
    /\ dateRange = DefaultRange
    /\ reportData = <<>>
    /\ inventoryList = <<>>
    /\ pctArgs \in (0..MaxValue) \X (0..MaxValue)
    /\ pctResult = <<>>
    /\ PagesIdle
    /\ ExtraIdle

NextPercentage == callGetPercentage

SpecPercentage == InitPercentage /\ [][NextPercentage]_vars

\* The Purchases page, mounted for a site, over a store without purchases.
InitPurchases ==
    /\ SiteInit(FALSE)
    /\ ReportIdle
    /\ now = 0
    /\ pageSiteId \in SiteIdsDrawn
    /\ PurchasesIdle
    /\ ProductionIdle
    /\ ExtraIdle

NextPurchases ==
    \/ openPurchaseModal
    \/ \E value \in PurchaseItems : setPurchaseFormData("item", value)
    \/ \E value \in PurchaseAmounts : setPurchaseFormData("amount", value)
    \/ \E base64 \in Receipts : handleReceiptUpload(base64)
    \/ handleSubmitPurchase
    \/ \E i \in 1..MaxPurchases : handleEditPurchase(i)
    \/ \E i \in 1..MaxPurchases : handleDeletePurchase(i)
    \/ closePurchaseModal
    \/ Tick

SpecPurchases == InitPurchases /\ [][NextPurchases]_vars

\* The Production page, mounted for a site, over a store whose productions
\* have all been deleted.
InitProduction ==
    /\ SiteInit(FALSE)
    /\ ReportIdle
    /\ now = 0
    /\ pageSiteId \in SiteIdsDrawn
    /\ PurchasesIdle
    /\ ProductionIdle
    /\ ExtraIdle

NextProduction ==
    \/ openProductionModal
    \/ \E field \in DOMAIN ProductionInputs : \E value \in ProductionInputs[field] :
          setProductionFormData(field, value)
    \/ handleSubmitProduction
    \/ \E i \in 1..MaxProductionRows : handleEditProduction(i)
    \/ \E i \in 1..MaxProductionRows : handleDeleteProduction(i)
    \/ closeProductionModal
    \/ Tick

SpecProduction == InitProduction /\ [][NextProduction]_vars

\* The AuthProvider and the App shell from the launch on.  localStorage is
\* read as it is found: without a profile, or with the profile of a user of
\* any role of UserRole (loadUser takes the view-mode from parsed.role).
SavedUsers ==
    {<<>>} \cup {<<[defaultUser(1, 0) EXCEPT !.role = r]>> : r \in UserRoles}

InitAuth ==
    /\ SiteInit(FALSE)
    /\ ReportIdle
    /\ PagesIdle
    /\ user = <<>>
    /\ viewMode = "admin"
    /\ savedUser \in SavedUsers
    /\ loadUserPc = "mount"
    /\ RenderIdle
    /\ SettingsIdle
    /\ MoreIdle

NextAuth ==
    \/ initAppSeed
    \/ seedAddSite
    \/ seedAddSettings
    \/ seedAddRows
    \/ initAppDone
    \/ loadUserMount
    \/ loadUserDefault
    \/ \E page \in Pages : setCurrentPage(page)
    \/ \E mode \in UserRoles : setViewMode(mode)
    \/ \E firstName \in FirstNames : handleSaveProfile(firstName)
    \/ Tick

SpecAuth == InitAuth /\ [][NextAuth]_vars

\* The same over several launches, with updateUser called by any consumer
\* of the context at any time.
NextProfile ==
    \/ NextAuth
    \/ \E firstName \in FirstNames : updateUser(firstName)
    \/ reload

SpecProfile == InitAuth /\ [][NextProfile]_vars

\* renderPage on every state it can be called in.
InitRender ==
    /\ SiteInit(FALSE)
    /\ ReportIdle
    /\ PagesIdle
    /\ user = <<>>
    /\ viewMode = "admin"
    /\ savedUser = <<>>
    /\ loadUserPc = "mount"
    /\ renderArgs \in [isInitialized : BOOLEAN, activeSiteId : 0..MaxSites,
                        currentPage : Pages, viewMode : UserRoles]
    /\ renderResult = <<>>
    /\ SettingsIdle
    /\ MoreIdle

NextRender == callRenderPage

SpecRender == InitRender /\ [][NextRender]_vars

\* The settings, from the first launch on: the seeding, the Settings page
\* with its toggles and its sites, and the App being opened again.
InitSettings ==
    /\ SiteInit(FALSE)
    /\ ReportIdle
    /\ PagesIdle
    /\ AuthIdle
    /\ SettingsIdle
    /\ MoreIdle

NextSettings ==
    \/ initAppSeed
    \/ seedAddSite
    \/ seedAddSettings
    \/ seedAddRows
    \/ initAppDone
    \/ reload
    \/ handleNavigate("settings")
    \/ loadSettings
    \/ \E key \in ToggleKeys : handleToggle(key)
    \/ \E k \in Slots : loadSitesApply(k)
    \/ \E k \in Slots : siteChangeUpdate(k)
    \/ \E k \in Slots : siteChangeLoad(k)
    \/ handleSaveSiteAdd
    \/ saveSiteRefresh
    \/ \E id \in 1..MaxSites : handleDeleteSite(id)
    \/ deleteSiteCascade
    \/ deleteSiteFinish

SpecSettings == InitSettings /\ [][NextSettings]_vars

\* The Settings page and the Inventory page from the first launch on, each
\* opened from the dashboard, with the App being opened again.
InitNoOp == InitSettings

\* the toggles that are used
NoOpKeys == {"showVsYesterday", "showWorkingDays"}

NextNoOp ==
    \/ initAppSeed
    \/ seedAddSite
    \/ seedAddSettings
    \/ seedAddRows
    \/ initAppDone
    \/ reload
    \/ \E page \in {"settings", "inventory"} :
          currentPage = "dashboard" /\ handleNavigate(page)
    \/ loadSettings
    \/ \E key \in NoOpKeys : handleToggle(key)
    \/ mountInventoryPage
    \/ openInventoryModal
    \/ \E field \in DOMAIN InventoryInputs : \E value \in InventoryInputs[field] :
          setInventoryFormData(field, value)
    \/ handleSubmitInventory
    \/ \E i \in 1..MaxInventoryRows : handleEditInventory(i)
    \/ \E i \in 1..MaxInventoryRows : handleDeleteInventory(i)
    \/ deleteInventoryReload
    \/ closeInventoryModal

SpecNoOp == InitNoOp /\ [][NextNoOp]_vars

\* The five lists over stores drawn from rows of two sites: row i of every
\* table has the site and the rank of row i of a drawn table, the rank
\* giving its date, its createdAt or its name.
ListRanks == 1..3

RankDate(rank) == <<2024, 1, rank>>

\* 'K', 'Ka', 'M'
RankText(rank) == <<<<75>>, <<75, 97>>, <<77>>>>[rank]

ListTables == TablesOf([siteId : SiteIdsDrawn, rank : ListRanks], MaxListRows)

InitLists ==
    /\ SiteInit(FALSE)
    /\ \E t \in ListTables :
          /\ productions = [i \in DOMAIN t |->
                 [id |-> i, siteId |-> t[i].siteId, date |-> RankDate(t[i].rank)]]
          /\ dailyReports = [i \in DOMAIN t |->
                 [id |-> i, siteId |-> t[i].siteId, date |-> RankDate(t[i].rank)]]
          /\ purchases = [i \in DOMAIN t |->
                 [id |-> i, siteId |-> t[i].siteId, createdAt |-> t[i].rank]]
          /\ workers = [i \in DOMAIN t |->
                 [id |-> i, siteId |-> t[i].siteId, lastName |-> RankText(t[i].rank)]]
          /\ inventory = [i \in DOMAIN t |->
                 [id |-> i, siteId |-> t[i].siteId, name |-> RankText(t[i].rank)]]
    /\ dateRange = DefaultRange
    /\ reportData = <<>>
    /\ inventoryList = <<>>
    /\ pctArgs = <<0, 0>>
    /\ pctResult = <<>>
    /\ now = 0
    /\ pageSiteId \in SiteIdsDrawn
    /\ nextPurchaseId = 1
    /\ purchaseList = <<>>
    /\ editingPurchase = <<>>
    /\ purchaseForm = EmptyPurchaseForm
    /\ receiptError = FALSE
    /\ purchaseModalOpen = FALSE
    /\ ProductionIdle
    /\ AuthIdle
    /\ SettingsIdle
    /\ InventoryIdle
    /\ WorkersIdle
    /\ nextDailyReportId = 1
    /\ reportList = <<>>
    /\ editingReport = <<>>
    /\ dailyForm = EmptyDailyForm
    /\ photos = <<>>
    /\ reportModalOpen = FALSE
    /\ uploads = <<>>
    /\ ErrorIdle

NextLists ==
    \/ loadProductions
    \/ loadReports
    \/ loadPurchases
    \/ loadWorkers
    \/ loadInventory(pageSiteId)

SpecLists == InitLists /\ [][NextLists]_vars

\* The report page, opened with a range that holds the first of January or
\* starts after it, over a store of productions of that day whose
\* quantities are tenths of a gram.
FractionRanges ==
    {DefaultRange, [start |-> <<2024, 1, 2>>, end |-> ReportToday]}

FractionRows ==
    [siteId : {1}, date : {<<2024, 1, 1>>},
     quantityGrams : {Tenth, TwoTenths, ThreeTenths},
     team : Teams, shift : ShiftsDrawn]

InitFractions ==
    /\ SiteInit(FALSE)
    /\ productions \in TablesOf(FractionRows, MaxFractions)
    /\ workers = SeedWorkers
    /\ inventory = SeedInventory
    /\ dateRange \in FractionRanges
    /\ reportData = <<>>
    /\ inventoryList = <<>>
    /\ pctArgs = <<0, 0>>
    /\ pctResult = <<>>
    /\ PagesIdle
    /\ ExtraIdle

NextFractions == generateReportSums

SpecFractions == InitFractions /\ [][NextFractions]_vars

\* The Daily Reports page, mounted for site 1, over a store without daily
\* reports; the files are chosen one at a time or MaxFiles at a time.
InitDaily ==
    /\ SiteInit(FALSE)
    /\ ReportIdle
    /\ now = MaxClock
    /\ pageSiteId = 1
    /\ PurchasesIdle
    /\ ProductionIdle
    /\ ExtraIdle

NextDaily ==
    \/ openReportModal
    \/ \E files \in {1, MaxFiles} : handlePhotoUpload(files)
    \/ \E k \in 1..MaxUploads, read \in BOOLEAN : photoRead(k, read)
    \/ \E index \in 1..PhotoLimit : removePhoto(index)
    \/ handleSubmitDaily
    \/ \E i \in 1..MaxDailyReports : handleEditDaily(i)
    \/ \E i \in 1..MaxDailyReports : handleDeleteDaily(i)
    \/ closeReportModal

SpecDaily == InitDaily /\ [][NextDaily]_vars

\* The sites, the Settings page and the record pages from the first launch
\* on, where up to MaxFailures requests to the store reject.
NextFailures ==
    \/ initAppSeed
    \/ seedAddSite
    \/ seedAddSettings
    \/ seedAddRows
    \/ initAppDone
    \/ \E k \in Slots : loadSitesApply(k)
    \/ \E k \in Slots : siteChangeUpdate(k)
    \/ \E k \in Slots : siteChangeLoad(k)
    \/ \E id \in 1..MaxSites : handleSetActiveSite(id)
    \/ setActiveUpdate
    \/ setActiveSpawn
    \/ handleSaveSiteAdd
    \/ saveSiteRefresh
    \/ \E id \in 1..MaxSites : handleDeleteSite(id)
    \/ deleteSiteCascade
    \/ deleteSiteFinish
    \/ \E page \in Pages : handleNavigate(page)
    \/ \E coll \in DeleteHasTry : handleSubmitAdd(coll)
    \/ loadSettings
    \/ \E k \in Slots : loadSitesFails(k)
    \/ \E id \in 1..MaxSites : handleSiteChangeFails(id)
    \/ \E id \in 1..MaxSites : handleSetActiveSiteFails(id)
    \/ setActiveUpdateFails
    \/ \E key \in ToggleKeys : handleToggleFails(key)
    \/ handleSaveSiteFails
    \/ \E id \in 1..MaxSites : handleDeleteSiteFails(id)
    \/ deleteSiteCascadeFails
    \/ \E coll \in Collections : handleDeleteFails(coll)
    \/ \E coll \in Collections : handleSubmitFails(coll)

SpecFailures == Init /\ [][NextFailures]_vars

\* The five record pages after the first launch, each shown for the site
\* that was seeded, whose sample records have all been deleted.
RecordPages == {PageOf(coll) : coll \in Collections}

InitStamps ==
    /\ sites = [i \in {1} |-> [isActive |-> TRUE]]
    /\ nextSiteId = 2
    /\ rows = {}
    /\ nextRowId = [c \in Collections |-> SeedCount(c) + 1]
    /\ attendanceStore = [k \in {} |-> <<>>]
    /\ uiSites = sites
    /\ activeSiteId = 1
    /\ isInitialized = TRUE
    /\ currentPage \in RecordPages
    /\ todayRecords = <<>>
    /\ isCheckedIn = FALSE
    /\ fg = Idle
    /\ bg = <<>>
    /\ overlap = FALSE
    /\ ReportIdle
    /\ now = 0
    /\ pageSiteId = 1
    /\ PurchasesIdle
    /\ ProductionIdle
    /\ AuthIdle
    /\ settings = AddRow(<<>>, 1, DefaultSettings(0))
    /\ nextSettingsId = 2
    /\ pageSettings = <<>>
    /\ launches = 0
    /\ MoreIdle

NextStamps ==
    \/ Tick
    \/ /\ currentPage = "production"
       /\ \/ openProductionModal
          \/ \E value \in ProductionInputs["quantityGrams"] :
                setProductionFormData("quantityGrams", value)
          \/ handleSubmitProduction
          \/ \E i \in 1..MaxProductionRows : handleEditProduction(i)
          \/ \E i \in 1..MaxProductionRows : handleDeleteProduction(i)
    \/ /\ currentPage = "workers"
       /\ \/ openWorkerModal
          \/ \E value \in WorkerNames : setWorkerFormData(value)
          \/ handleSubmitWorker
          \/ \E i \in 1..MaxWorkerRows : handleEditWorker(i)
          \/ \E i \in 1..MaxWorkerRows : handleDeleteWorker(i)
          \/ closeWorkerModal
    \/ /\ currentPage = "inventory"
       /\ \/ openInventoryModal
          \/ \E value \in InventoryInputs["name"] : setInventoryFormData("name", value)
          \/ handleSubmitInventory
          \/ \E i \in 1..MaxInventoryRows : handleEditInventory(i)
          \/ \E i \in 1..MaxInventoryRows : handleDeleteInventory(i)
          \/ deleteInventoryReload
    \/ /\ currentPage = "purchases"
       /\ \/ openPurchaseModal
          \/ \E base64 \in Receipts : handleReceiptUpload(base64)
          \/ handleSubmitPurchase
          \/ \E i \in 1..MaxPurchases : handleEditPurchase(i)
          \/ \E i \in 1..MaxPurchases : handleDeletePurchase(i)
    \/ /\ currentPage = "reports"
       /\ \/ openReportModal
          \/ handleSubmitDaily
          \/ \E i \in 1..MaxDailyReports : handleEditDaily(i)
          \/ \E i \in 1..MaxDailyReports : handleDeleteDaily(i)

SpecStamps == InitStamps /\ [][NextStamps]_vars

\* ------------------------------------------------------------ the claims
ActiveSites == {i \in DOMAIN sites : sites[i].isActive}

\* seedDatabase has added the first site
Seeded == nextSiteId > 1

\* no handler is between two of its awaits
Quiescent == fg = Idle /\ bg = <<>>

\* C1: whatever activate operations (handleSiteChange, handleSetActiveSite)
\* have run, each to completion, at most one site has isActive = true.
C1_AtMostOneActive == Cardinality(ActiveSites) <= 1

\* C1 witness: an activation has completed: a site other than the seeded one
\* is the active one, and the seeded one is still there, inactive.
C1_Witness ==
    /\ Quiescent
    /\ 1 \in DOMAIN sites /\ ~sites[1].isActive
    /\ \E i \in DOMAIN sites : i # 1 /\ sites[i].isActive /\ activeSiteId = i

\* C2: once the store is seeded, exactly one site has isActive = true in
\* every reachable state, the states between two store writes of one
\* operation included.
C2_ExactlyOneActive == Seeded => Cardinality(ActiveSites) = 1

\* C3: once seeded, the sites table is never empty, also when a second delete
\* is issued before the page's `sites` list has been refreshed.
C3_SitesNeverEmpty == Seeded => DOMAIN sites # {}

\* the sites that handleDeleteSite has deleted, the handler having returned
DeletedSites ==
    {S \in 1..(nextSiteId - 1) :
        S \notin DOMAIN sites /\ ~(fg.op = "deleteSite" /\ fg.id = S)}

AttendanceOwnedBy(S) ==
    {<<k, i>> \in (DOMAIN attendanceStore) \X (1..MaxCheckIns) :
        i <= Len(attendanceStore[k]) /\ attendanceStore[k][i].siteId = S}

\* C4: after a completed handleDeleteSite(S) no collection other than sites
\* holds a record owned by S (the five tables and the attendance records),
\* and no step of the delete changes a record owned by another site.
C4_CascadeDelete ==
    /\ [](\A S \in DeletedSites :
            /\ {x \in rows : x.siteId = S} = {}
            /\ AttendanceOwnedBy(S) = {})
    /\ [][deleteSiteCascade =>
            /\ {x \in rows' : x.siteId # fg.id} = {x \in rows : x.siteId # fg.id}
            /\ attendanceStore' = attendanceStore]_vars


\* the days from start to end, both counted
InclusiveDays(range) == (GetTime(range.end) - GetTime(range.start)) \div SecPerDay + 1

\* C5: the report's daily average is total / max(1, inclusive day count of
\* the range), rounded: for start <= end the divisor is (end - start) + 1,
\* so 900 g over 2024-01-01..2024-01-03 average 300.
C5_DailyAverageInclusive ==
    (reportData # <<>> /\ DateLeq(dateRange.start, dateRange.end))
        => reportData[1].dailyAverage =
              RoundDiv(reportData[1].totalProduction, Max(1, InclusiveDays(dateRange)))

\* C6: getPercentage(value, total) is value / total * 100 rounded to a
\* nearest integer when total > 0 and 0 when total = 0; 50 of 200 is 25.
C6_Percentage ==
    pctResult # <<>> =>
        LET value == pctArgs[1]
            total == pctArgs[2]
            r == pctResult[1]
        IN /\ total > 0 => 2 * Abs(100 * value - r * total) <= total
           /\ total = 0 => r = 0
           /\ (value = 50 /\ total = 200) => r = 25

\* C6 witness: the call getPercentage(50, 200) has returned 25.
C6_Witness == pctArgs = <<50, 200>> /\ pctResult = <<25>>

\* C7: a submit that adds a purchase (nothing is being edited) with an empty
\* receipt field writes nothing to the purchases collection and raises the
\* receipt error; with a non-empty receipt it writes a new record, with that
\* receipt, which is retrievable by its id and listed by the page.
C7_AddNeedsReceipt ==
    [][(editingPurchase = <<>> /\ handleSubmitPurchase) =>
          IF purchaseForm.receiptPhoto = ""
          THEN purchases' = purchases /\ receiptError'
          ELSE /\ nextPurchaseId \notin DOMAIN purchases
               /\ nextPurchaseId \in DOMAIN purchases'
               /\ purchases'[nextPurchaseId].id = nextPurchaseId
               /\ purchases'[nextPurchaseId].receiptPhoto = purchaseForm.receiptPhoto
               /\ \E i \in 1..Len(purchaseList') :
                     purchaseList'[i] = purchases'[nextPurchaseId]]_vars

\* C7 witness: an add was rejected for its empty receipt after another one
\* had succeeded
C7_Witness ==
    /\ receiptError
    /\ editingPurchase = <<>>
    /\ purchaseForm.receiptPhoto = ""
    /\ DOMAIN purchases # {}

\* C8: after any sequence of adds, edits and deletes through the Purchases
\* page every persisted purchase has a non-empty receiptPhoto, and an edit
\* submitted without a newly uploaded receipt leaves the receipt of the
\* purchase as it was.
C8_ReceiptKept ==
    /\ [](\A id \in DOMAIN purchases : purchases[id].receiptPhoto # "")
    /\ [][(/\ editingPurchase # <<>>
           /\ purchaseForm.receiptPhoto = ""
           /\ editingPurchase[1].id \in DOMAIN purchases
           /\ handleSubmitPurchase) =>
             /\ editingPurchase[1].id \in DOMAIN purchases'
             /\ purchases'[editingPurchase[1].id].receiptPhoto =
                   purchases[editingPurchase[1].id].receiptPhoto]_vars

\* C8 witness: a purchase has been edited after it was added
C8_Witness ==
    /\ ~purchaseModalOpen
    /\ \E id \in DOMAIN purchases :
          /\ purchases[id].updatedAt > purchases[id].createdAt
          /\ purchases[id].receiptPhoto # ""

\* C9: a submit that updates a production writes the values of the form,
\* which the record then reads back, and the record's updatedAt after the
\* update is strictly greater than its updatedAt before it.
C9_RoundTrip ==
    [][(/\ editingProduction # <<>>
        /\ editingProduction[1].id \in DOMAIN productions
        /\ handleSubmitProduction) =>
          LET id == editingProduction[1].id
          IN /\ productions'[id].date = productionForm.date
             /\ productions'[id].quantityGrams = Number(productionForm.quantityGrams)
             /\ productions'[id].team = productionForm.team
             /\ productions'[id].shift = productionForm.shift
             /\ productions'[id].notes = productionForm.notes
             /\ productions'[id].updatedAt > productions[id].updatedAt]_vars

\* the levels as the claims state them
ClaimLevel(role) ==
    CASE role = "admin" -> 3 [] role = "supervisor" -> 2 [] role = "worker" -> 1

\* C11: with admin = 3, supervisor = 2, worker = 1, canAccess(required) is
\* true iff the level of the view-mode is at least the level required, for
\* all nine pairs, and isAdmin, isSupervisor and isWorker equal
\* canAccess('admin'), canAccess('supervisor') and canAccess('worker').
C11_CanAccess ==
    /\ \A mode \in UserRoles, required \in UserRoles :
          canAccess(mode, required) <=> ClaimLevel(mode) >= ClaimLevel(required)
    /\ viewMode \in UserRoles
    /\ isAdmin(viewMode) <=> canAccess(viewMode, "admin")
    /\ isSupervisor(viewMode) <=> canAccess(viewMode, "supervisor")
    /\ isWorker(viewMode) <=> canAccess(viewMode, "worker")

\* C11 witness: an admin previews the supervisor's view, which may access
\* what a supervisor may and not what an admin may
C11_Witness ==
    /\ loadUserPc = "done"
    /\ user # <<>> /\ user[1].role = "admin"
    /\ viewMode = "supervisor"
    /\ canAccess(viewMode, "supervisor") /\ ~canAccess(viewMode, "admin")

C13_SetViewModeKeepsUser ==
    [][(\E mode \in UserRoles : setViewMode(mode)) =>
          user' = user /\ savedUser' = savedUser]_vars

\* C13 witness: the view-mode has been switched to worker, the profile in
\* memory and the saved one are the admin's
C13_Witness ==
    /\ viewMode = "worker"
    /\ user # <<>> /\ user[1].role = "admin"
    /\ savedUser = user

GatedForSupervisor == {"workers", "inventory", "purchases", "reports"}

\* C14: renderPage returns the Settings page only in view-mode admin, the
\* Workers, Inventory, Purchases and Daily Reports pages only in view-mode
\* admin or supervisor, and, once the App shows pages, the Dashboard for a
\* gated page in a lower view-mode, for every current page and view-mode.
C14_RoleGatedRendering ==
    renderResult # <<>> =>
        LET a == renderArgs
            r == renderResult[1]
        IN /\ r = "SettingsPage" => a.viewMode = "admin"
           /\ r \in {"WorkersPage", "InventoryPage", "PurchasesPage", "DailyReportsPage"}
                 => a.viewMode \in {"admin", "supervisor"}
           /\ (/\ a.isInitialized /\ a.activeSiteId # 0
               /\ \/ a.currentPage = "settings" /\ a.viewMode # "admin"
                  \/ a.currentPage \in GatedForSupervisor /\ a.viewMode = "worker")
                 => r = "Dashboard"

\* C14 witness: the Settings page is current in view-mode supervisor and
\* the Dashboard is returned
C14_Witness ==
    /\ renderArgs.currentPage = "settings" /\ renderArgs.viewMode = "supervisor"
    /\ renderResult = <<"Dashboard">>

\* list holds exactly the rows of table t whose siteId is siteId
ExactlyOfSite(list, t, siteId) ==
    /\ Len(list) = Cardinality(SiteKeys(t, siteId))
    /\ {list[i].id : i \in 1..Len(list)} = SiteKeys(t, siteId)
    /\ \A i \in 1..Len(list) : list[i] = t[list[i].id]

\* list is in descending order of the field
Descending(list, field) ==
    \A i \in 1..Len(list) : \A j \in i..Len(list) :
        SortKey(list[i], field) >= SortKey(list[j], field)

\* list is in ascending order of the field, a text
Ascending(list, field) ==
    \A i \in 1..Len(list) : \A j \in i..Len(list) :
        ~StrLess(list[j][field], list[i][field])

\* C16: the list a page loads for site S holds exactly the stored records
\* of S, productions and daily reports by date descending, purchases by
\* createdAt descending, workers by lastName and inventory by name
\* ascending.
C16_ListsOfSiteOrdered ==
    /\ [][loadProductions =>
             /\ ExactlyOfSite(productionList', productions, pageSiteId)
             /\ Descending(productionList', "date")]_vars
    /\ [][loadReports =>
             /\ ExactlyOfSite(reportList', dailyReports, pageSiteId)
             /\ Descending(reportList', "date")]_vars
    /\ [][loadPurchases =>
             /\ ExactlyOfSite(purchaseList', purchases, pageSiteId)
             /\ Descending(purchaseList', "createdAt")]_vars
    /\ [][loadWorkers =>
             /\ ExactlyOfSite(workerList', workers, pageSiteId)
             /\ Ascending(workerList', "lastName")]_vars
    /\ [][loadInventory(pageSiteId) =>
             /\ ExactlyOfSite(inventoryList', inventory, pageSiteId)
             /\ Ascending(inventoryList', "name")]_vars

\* the five lists are loaded for site 1 from stores that hold two rows of
\* site 1 with different ranks, the later one first in the store, and a row
\* of site 2
C16_Witness ==
    /\ pageSiteId = 1
    /\ Cardinality(DOMAIN workers) = 3
    /\ \E i, j, k \in DOMAIN workers :
          /\ i < j
          /\ workers[i].siteId = 1 /\ workers[j].siteId = 1
          /\ StrLess(workers[j].lastName, workers[i].lastName)
          /\ workers[k].siteId = 2
    /\ Len(productionList) = 2
    /\ Len(reportList) = 2
    /\ Len(purchaseList) = 2
    /\ Len(workerList) = 2
    /\ Len(inventoryList) = 2

\* the productions the report is about, in the order of the store
ReportedProductions ==
    LET inRange(p) == InRange(p, dateRange)
    IN SelectSeq(ToArray(productions), inRange)

\* the quantities of the reported productions whose field is the group
MemberGrams(field, group) ==
    LET member(p) == p[field] = group
        members == SelectSeq(ReportedProductions, member)
    IN [i \in 1..Len(members) |-> members[i].quantityGrams]

\* the values of the groups, in an order of the groups
GroupValues(byGroup) ==
    LET order == CHOOSE q \in [1..Cardinality(DOMAIN byGroup) -> DOMAIN byGroup] :
                     \A g \in DOMAIN byGroup : \E i \in DOMAIN q : q[i] = g
    IN [i \in DOMAIN order |-> byGroup[order[i]]]

\* C17: the report's groups are the teams and the shifts of the
\* productions dated within [start, end]; each group's value is the sum of
\* its members' quantityGrams, and the values of the teams and the values
\* of the shifts both add up to totalProduction.
C17_GroupSums ==
    reportData # <<>> =>
        LET report == reportData[1]
            n == Len(ReportedProductions)
        IN /\ DOMAIN report.productionByTeam =
                  {ReportedProductions[i].team : i \in 1..n}
           /\ DOMAIN report.productionByShift =
                  {ReportedProductions[i].shift : i \in 1..n}
           /\ \A g \in DOMAIN report.productionByTeam :
                  report.productionByTeam[g] = SumDouble(MemberGrams("team", g))
           /\ \A g \in DOMAIN report.productionByShift :
                  report.productionByShift[g] = SumDouble(MemberGrams("shift", g))
           /\ SumDouble(GroupValues(report.productionByTeam)) = report.totalProduction
           /\ SumDouble(GroupValues(report.productionByShift)) = report.totalProduction

\* C18: every persisted daily report has at most 6 photos, whatever
\* uploads (overlapping ones too), removals, edits and saves there were.
C18_PhotosWithinLimit ==
    \A id \in DOMAIN dailyReports : Len(dailyReports[id].photos) <= 6

\* a report with 6 photos has been saved, and two uploads are reading
\* their files at once, one of them started with photos already there
C18_Witness ==
    /\ \E id \in DOMAIN dailyReports : Len(dailyReports[id].photos) = 6
    /\ Len(uploads) = 2
    /\ \E k \in 1..2 : uploads[k].photos # <<>> /\ uploads[k].newPhotos # <<>>

\* C15: an update of an id that is not in the collection creates no
\* record, changes no record and lets the caller run to its end: a saved
\* edit of an inventory item that has been deleted leaves db.inventory as it
\* was, reloads the list and closes the modal; a toggle without a settings
\* row leaves db.settings empty and sets the page's copy.
C15_UpdateMissingIsNoOp ==
    /\ [][(/\ handleSubmitInventory
           /\ editingItem # <<>>
           /\ editingItem[1].id \notin DOMAIN inventory) =>
             /\ inventory' = inventory
             /\ inventoryList' = LoadInventory(inventory, pageSiteId)
             /\ ~inventoryModalOpen']_vars
    /\ [][\A key \in ToggleKeys : (handleToggle(key) /\ DOMAIN settings = {}) =>
             /\ settings' = settings
             /\ pageSettings'[1][key] = ~pageSettings[1][key]]_vars

\* the item that was added has been deleted, and the list has been emptied
\* before handleDelete reloaded it: by the save of an edit of that item
C15_Witness ==
    /\ InventoryShown
    /\ nextInventoryId = 2
    /\ inventory = <<>>
    /\ inventoryReloads = 1
    /\ inventoryList = <<>>
    /\ ~inventoryModalOpen

\* the settings a page shows: the toggles, the theme and the language
ShownSettings(r) == [k \in ToggleKeys \cup {"theme", "language"} |-> r[k]]

\* C19: once seedDatabase has been called and the App is initialized,
\* whatever toggles, site additions and deletions and further launches
\* there were, exactly one Settings row exists; a call of seedDatabase that
\* finds a site adds nothing to any collection.
C19_SettingsSingleton ==
    /\ [](isInitialized => Cardinality(DOMAIN settings) = 1)
    /\ [][(DOMAIN sites # {} /\ initAppSeed) =>
             /\ fg'.pc = "apply"
             /\ UNCHANGED <<sites, rows, settings>>]_vars

\* C20: after handleToggle(key, v) getSettings gives key = v and the other
\* four toggles, the theme and the language as they were, and the settings
\* the page shows are the ones persisted.
C20_ToggleApplied ==
    [][\A key \in ToggleKeys : handleToggle(key) =>
          LET before == getSettings(settings, now)
              after == getSettings(settings', now)
          IN /\ after[key] = ~pageSettings[1][key]
             /\ \A k \in (ToggleKeys \ {key}) \cup {"theme", "language"} :
                   after[k] = before[k]
             /\ ShownSettings(pageSettings'[1]) = ShownSettings(after)]_vars

\* the rows of a sequence of inventory items with quantity <= minQuantity
LowRows(items) == {i \in 1..Len(items) : items[i].quantity <= items[i].minQuantity}

\* C10: an item is low-stock iff quantity <= minQuantity (5 of 5 is, 6 of 5
\* is not), and the counts of the Inventory page and of the report are the
\* numbers of items that satisfy it.
C10_LowStock ==
    /\ isLowStock([siteId |-> 1, quantity |-> 5, minQuantity |-> 5])
    /\ ~isLowStock([siteId |-> 1, quantity |-> 6, minQuantity |-> 5])
    /\ \A i \in 1..Len(inventoryList) :
          isLowStock(inventoryList[i])
              <=> inventoryList[i].quantity <= inventoryList[i].minQuantity
    /\ lowStockCount = Cardinality(LowRows(inventoryList))
    /\ reportData # <<>> =>
          reportData[1].lowStockItems = Cardinality(LowRows(ToArray(inventory)))

\* C10 witness: the page lists an item at its minimum and one above it, and
\* both the page and the report count the low one.
C10_Witness ==
    /\ \E i \in 1..Len(inventoryList) :
          inventoryList[i].quantity = 5 /\ inventoryList[i].minQuantity = 5
    /\ \E i \in 1..Len(inventoryList) :
          inventoryList[i].quantity = 6 /\ inventoryList[i].minQuantity = 5
    /\ lowStockCount = 1
    /\ reportData # <<>> /\ reportData[1].lowStockItems = 1

TypeOK ==
    /\ DOMAIN sites \subseteq 1..MaxSites
    /\ nextSiteId \in 1..(MaxSites + 1)
    /\ activeSiteId \in 0..MaxSites
    /\ currentPage \in Pages
    /\ Len(bg) <= MaxPending + 3

\* C21: a failure of a store request never escapes the handler that issued
\* it as an uncaught error, whichever handler it is: saving, deleting,
\* loading, activating a site, toggling a setting, deleting a site with its
\* records.
C21_FailuresSwallowed == uncaught = <<>>

\* a step leaves the key and createdAt of every row of the table as they
\* are, and a row it adds has its key and is stamped with readings of the
\* clock taken during the step
KeepsAndStamps(t, after) ==
    \A id \in DOMAIN after :
       /\ after[id].id = id
       /\ IF id \in DOMAIN t
          THEN after[id].createdAt = t[id].createdAt
          ELSE /\ after[id].createdAt \in now..now'
               /\ after[id].updatedAt \in now..now'

\* a submit that edits a row that is stored gives it a reading of the clock
\* taken during the step as its updatedAt
Refreshes(editing, t, after) ==
    (editing # <<>> /\ editing[1].id \in DOMAIN t) =>
        after[editing[1].id].updatedAt \in now..now'

\* C22: for productions, workers, inventory items, purchases and daily
\* reports, an add stamps createdAt and updatedAt with the time of the add,
\* and an edit sets updatedAt to the time of the edit and leaves the
\* record's id and createdAt as they were at creation.
C22_Stamps ==
    [][/\ now' >= now
       /\ KeepsAndStamps(productions, productions')
       /\ KeepsAndStamps(workers, workers')
       /\ KeepsAndStamps(inventory, inventory')
       /\ KeepsAndStamps(purchases, purchases')
       /\ KeepsAndStamps(dailyReports, dailyReports')
       /\ handleSubmitProduction => Refreshes(editingProduction, productions, productions')
       /\ handleSubmitWorker => Refreshes(editingWorker, workers, workers')
       /\ handleSubmitInventory => Refreshes(editingItem, inventory, inventory')
       /\ (handleSubmitPurchase /\ ~ReceiptMissing(purchaseForm, editingPurchase))
             => Refreshes(editingPurchase, purchases, purchases')
       /\ handleSubmitDaily => Refreshes(editingReport, dailyReports, dailyReports')]_vars

\* C22 witness: a daily report that was added at one reading of the clock
\* and edited at a later one, listed with both stamps.
C22_Witness ==
    /\ currentPage = "reports"
    /\ \E id \in DOMAIN dailyReports :
          /\ dailyReports[id].id = id
          /\ dailyReports[id].updatedAt > dailyReports[id].createdAt
    /\ Len(reportList) = 1
    /\ ~reportModalOpen

\* C23: the default admin is written only when no profile is persisted; a
\* persisted profile is loaded as it is and changes only through
\* updateUser; whenever a user is loaded it equals the persisted profile;
\* updateUser with no user loaded changes nothing.
C23_ProfileOnce ==
    /\ [](user # <<>> => user = savedUser)
    /\ [][loadUserDefault => savedUser = <<>>]_vars
    /\ [][(loadUserMount /\ savedUser # <<>>) =>
             user' = savedUser /\ savedUser' = savedUser]_vars
    /\ [][(savedUser # <<>> /\ savedUser' # savedUser) =>
             user # <<>> /\ \E firstName \in FirstNames : updateUser(firstName)]_vars
    /\ [][\A firstName \in FirstNames : (user = <<>> /\ updateUser(firstName)) =>
             UNCHANGED <<user, savedUser>>]_vars

\* C23 witness: the App was opened again after the first name of the
\* default admin was changed, and loadUser has loaded the changed profile.
C23_Witness ==
    /\ launches > 0
    /\ loadUserPc = "done"
    /\ user # <<>> /\ user = savedUser
    /\ user[1].firstName = "Jean"
    /\ user[1].role = "admin"

\* the pages renderPage gives the prop siteId={activeSiteId}
SiteScopedPages == Pages \ {"settings", "profile"}

\* C24: once a delete of the active site has completed, with the refresh
\* and the switch it started, activeSiteId is the id of a stored site whose
\* isActive is true; and no page with a siteId prop is ever rendered for
\* siteId 0 or for a site that is no longer stored.
C24_ActiveSiteExists ==
    /\ (Quiescent /\ isInitialized /\ DeletedSites # {}) =>
          (activeSiteId \in DOMAIN sites /\ sites[activeSiteId].isActive)
    /\ (Rendered /\ currentPage \in SiteScopedPages) =>
          (activeSiteId # 0 /\ activeSiteId \in DOMAIN sites)

\* C25: when every add, edit, delete and site delete that was started has
\* completed, every production, worker, inventory item, purchase and daily
\* report has the siteId of a stored site.
C25_ReferentialIntegrity ==
    Quiescent => \A x \in rows : x.siteId \in DOMAIN sites

\* the records stored for a site and today
StoredToday(siteId) ==
    IF <<siteId, Today>> \in DOMAIN attendanceStore
    THEN attendanceStore[<<siteId, Today>>]
    ELSE <<>>

\* the stored records of the user that have no check-out
OpenRecords(records) ==
    {i \in 1..Len(records) :
        records[i].workerId = UserId /\ records[i].checkOut = "null"}

\* C26: on the attendance page, when no handler is running, isCheckedIn is
\* true exactly if the records stored for the active site and today hold a
\* record of the user without a check-out.
C26_CheckedInMatchesStore ==
    (Quiescent /\ Rendered /\ currentPage = "attendance") =>
        (isCheckedIn <=> OpenRecords(StoredToday(activeSiteId)) # {})

\* C27: every record stored under the key of a site and a date has that
\* siteId and that date.
C27_StoredUnderOwnKey ==
    \A k \in DOMAIN attendanceStore :
        \A i \in 1..Len(attendanceStore[k]) :
            /\ attendanceStore[k][i].siteId = k[1]
            /\ attendanceStore[k][i].date = k[2]

\* C28: for the user, each site and each day, at most one stored record has
\* no check-out.
C28_OneOpenRecord ==
    \A k \in DOMAIN attendanceStore :
        Cardinality(OpenRecords(attendanceStore[k])) <= 1

\* the keys of the productions of a site that lie in the range
SiteProductions(siteId, range) ==
    {k \in SiteKeys(productions, siteId) : InRange(productions[k], range)}

\* the grams of the productions of a site in the range that have the value
\* in the field
SiteGrams(siteId, range, field, value) ==
    LET keys == {k \in SiteProductions(siteId, range) :
                    productions[k][field] = value}
    IN SumOver([k \in keys |-> productions[k].quantityGrams], keys)

\* the sum over the sites of what each site counts
OverSites(count) == SumOver(count, SiteIdsDrawn)

\* C29: the report the page holds is computed over the records of all
\* sites: the total, the sums of each team and each shift, the number of
\* active workers and the number of low-stock items are the sums over the
\* sites of what each site contributes, whichever site is active.
C29_ReportOverAllSites ==
    reportData # <<>> =>
        LET r == reportData[1]
            inRange == UNION {SiteProductions(S, dateRange) : S \in SiteIdsDrawn}
        IN /\ r.totalProduction =
                 OverSites([S \in SiteIdsDrawn |->
                     SumOver([k \in SiteProductions(S, dateRange) |->
                                 productions[k].quantityGrams],
                             SiteProductions(S, dateRange))])
           /\ DOMAIN r.productionByTeam = {productions[k].team : k \in inRange}
           /\ \A team \in DOMAIN r.productionByTeam :
                 r.productionByTeam[team] =
                     OverSites([S \in SiteIdsDrawn |->
                                   SiteGrams(S, dateRange, "team", team)])
           /\ DOMAIN r.productionByShift = {productions[k].shift : k \in inRange}
           /\ \A shift \in DOMAIN r.productionByShift :
                 r.productionByShift[shift] =
                     OverSites([S \in SiteIdsDrawn |->
                                   SiteGrams(S, dateRange, "shift", shift)])
           /\ r.activeWorkers =
                 OverSites([S \in SiteIdsDrawn |->
                     Cardinality({k \in SiteKeys(workers, S) :
                                     workers[k].status = "active"})])
           /\ r.lowStockItems =
                 OverSites([S \in SiteIdsDrawn |->
                     Cardinality({k \in SiteKeys(inventory, S) :
                         inventory[k].quantity <= inventory[k].minQuantity})])

\* site 2 is active and the report counts a production, an active worker
\* and a low-stock item of site 1 and one of each of site 2
C29_Witness ==
    /\ activeSiteId = 2
    /\ reportData # <<>>
    /\ dateRange.start = <<2024, 1, 2>>
    /\ reportData[1].totalProduction = 600
    /\ \A S \in SiteIdsDrawn : SiteGrams(S, dateRange, "team", "Equipe A") = 300
    /\ reportData[1].activeWorkers = 2
    /\ \A S \in SiteIdsDrawn : SiteKeys(workers, S) # {}
    /\ reportData[1].lowStockItems = 2
    /\ \A S \in SiteIdsDrawn : SiteKeys(inventory, S) # {}

\* the purchase that a step of handleSubmit saves
SavedPurchase(id) ==
    /\ handleSubmitPurchase
    /\ ~ReceiptMissing(purchaseForm, editingPurchase)
    /\ id = (IF editingPurchase # <<>> THEN editingPurchase[1].id ELSE nextPurchaseId)

\* C30: the purchase that a submit saves, added or edited, gets as
\* purchaseDate and purchaseTime the date and the time of a moment of that
\* submit, and an edited one keeps its createdAt; no other step changes the
\* purchaseDate, purchaseTime or createdAt of a stored purchase.
C30_PurchaseDateOfLastSave ==
    [][\A id \in DOMAIN purchases' :
          IF SavedPurchase(id)
          THEN /\ \E at \in now..now' :
                     /\ purchases'[id].purchaseDate = formatDate(at)
                     /\ purchases'[id].purchaseTime = formatTime(at)
               /\ id \in DOMAIN purchases =>
                     purchases'[id].createdAt = purchases[id].createdAt
          ELSE /\ id \in DOMAIN purchases
               /\ purchases'[id].purchaseDate = purchases[id].purchaseDate
               /\ purchases'[id].purchaseTime = purchases[id].purchaseTime
               /\ purchases'[id].createdAt = purchases[id].createdAt]_vars

\* a purchase created at 2024-01-30T23:59Z has been edited the day after:
\* it has the date and time of the edit and the createdAt of the add
C30_Witness ==
    /\ ~purchaseModalOpen
    /\ \E id \in DOMAIN purchases :
          /\ purchases[id].createdAt = 0
          /\ purchases[id].purchaseDate = <<2024, 1, 31>>
          /\ purchases[id].purchaseTime = formatTime(purchases[id].updatedAt)
          /\ purchases[id].updatedAt > 0

====
